---- MODULE Spec2Model ----
(***************************************************************************)
(* NeonCrypt: the on-chain encrypted-message ledger                        *)
(* (src/contracts/NeonCrypt.sol).  The contract's storage, the ACL kept by *)
(* the FHE library on its behalf and the event log are the state; every   *)
(* external function is one action.  A transaction either commits all its *)
(* writes or, on a failed require / failed library call, reverts them all. *)
(*                                                                         *)
(* The web client (src/frontend) is modelled next to it: the wallet state  *)
(* the page reads through its hooks, the ChatInput component with the      *)
(* values its handlers closed over at the last render, and the send        *)
(* attempts that are waiting on an await.                                  *)
(***************************************************************************)
EXTENDS Integers, Sequences, FiniteSets, Bags, TLC

\* ------------------------------------------------------------------ bounds
MaxMessages == 2
\* the longest id list handed to getMessagesBatch
MaxBatch == 2
\* the most send attempts of the page followed while they wait on an await
MaxSends == 2

\* --------------------------------------------------------------- constants
Users == {"alice", "bob"}
ThisContract == "this"
ZeroAddress == "0x0"
Addresses == Users \cup {ThisContract, ZeroAddress}

\* ids a caller may name: every id that can exist plus one that never does
Ids == 0..MaxMessages

\* external handles (externalEuint32) a client may submit; 0 is the zero hash
Handles == {11, 22}
ZeroHandle == 0

\* block timestamps the chain may show, in increasing order
BlockTimes == {1, 2}

\* input proofs: the empty blob and a non-empty one
Proofs == {<< >>, <<171>>}

\* the library call of submitMessage that reverts, if any
AuthorityFailures == {"none", "fromExternal", "allowThis", "allow"}

ErrEmptyProof == "Input proof cannot be empty"
ErrNotFound == "Message does not exist"
ErrNotOwner == "Not message owner"
ErrAlreadyDeleted == "Message already deleted"
ErrAuthority == "AuthorityFailure"

VARIABLES
    totalMessages,   \* uint256 _totalMessages
    messages,        \* mapping(uint256 => Message) _messages
    userMessages,    \* mapping(address => uint256[]) _userMessages
    grants,          \* ACL of the FHE library: {<<ciphertext, grantee>>}
    events,          \* the contract's event log
    now,             \* block.timestamp
    lastCall,        \* the call made by the last step and its outcome
    history,         \* the successful mutating calls so far, with their inputs
    chainId,         \* useChainId()
    address,         \* useAccount(): address, NoAccount while disconnected
    walletClient,    \* useWalletClient(): whether data is defined
    provider,        \* whether window.ethereum is defined
    message,         \* ChatInput: useState("") message
    isSending,       \* ChatInput: useState(false) isSending
    rendered,        \* the values the handlers of the last render closed over
    sends,           \* the onSend invocations that have not settled, as a bag
    fhevmInstance,                    \* lib/fhevm: let fhevmInstance
    mockFhevmInstance,                \* lib/fhevm: let mockFhevmInstance
    isInitialized,                    \* lib/fhevm: let isInitialized
    cachedUserAddress,                \* lib/fhevm: let cachedUserAddress
    cachedMetadata,                   \* lib/fhevm: let cachedMetadata
    cachedInputVerifierEip712Domain,  \* lib/fhevm: let cachedInputVerifierEip712Domain
    cachedKmsVerifierEip712Domain,    \* lib/fhevm: let cachedKmsVerifierEip712Domain
    calls,           \* the calls into lib/fhevm that are waiting on an await, as a bag
    previousChainId, \* Home: useState(undefined) previousChainId
    pageMessages,    \* Home: useState([]) messages, as the ids of the messages listed
    userMessageIds,  \* Home: data of useReadContract(getUserMessages)
    networkDeps,     \* Home: the dependencies the network effect last ran with
    loadDeps,        \* Home: the dependencies the load effect last ran with
    loads,           \* Home: the loadMessages runs that are still reading
    loadCount,       \* the number of runs of the load effect so far
    shownRun,        \* the run of the load effect that last called setMessages
    seenChainId      \* the chain id the last render of Home got from useChainId()

ledger == <<totalMessages, messages, userMessages, grants, events>>
wallet == <<chainId, address, walletClient, provider>>
chatInput == <<message, isSending, rendered, sends>>
caches == <<fhevmInstance, mockFhevmInstance, cachedUserAddress, cachedMetadata,
            cachedInputVerifierEip712Domain, cachedKmsVerifierEip712Domain>>
fhevm == <<caches, isInitialized, calls>>
home == <<previousChainId, pageMessages, userMessageIds, networkDeps, loadDeps, loads,
          loadCount, shownRun, seenChainId>>
lib == <<fhevm, home>>
client == <<wallet, chatInput, lib>>
vars == <<totalMessages, messages, userMessages, grants, events, now, lastCall, history,
          client>>

\* the value a mapping(uint256 => Message) holds at a key never written
DefaultMessage ==
    [encryptedContent |-> ZeroHandle, timestamp |-> 0, sender |-> ZeroAddress, isActive |-> FALSE]

NoCall == [op |-> "none"]

\* the storage, ACL and log as one value, so that a transaction can be run on it
Ledger ==
    [total |-> totalMessages, msgs |-> messages, idx |-> userMessages,
     acl |-> grants, log |-> events]

\* ------------------------------------------------------ the web client: values
\* chain ids: the local Hardhat node, the Sepolia testnet and a chain the
\* application has no entry for
HardhatId == 31337
SepoliaId == 11155111
MainnetId == 1
ChainIds == {HardhatId, SepoliaId, MainnetId}

Undefined == "undefined"
NoAccount == Undefined
ZeroHexAddress == "0x0000000000000000000000000000000000000000"
HardhatDeployment == "0x5FbDB2315678afecb367f032d93F642f64180aa3"

NEON_CRYPT_ADDRESSES ==
    (SepoliaId :> ZeroHexAddress) @@ (HardhatId :> HardhatDeployment)

\* getNeonCryptAddress(chainId): the address, or the throw
getNeonCryptAddress(c) ==
    LET addr == IF c \in DOMAIN NEON_CRYPT_ADDRESSES
                THEN NEON_CRYPT_ADDRESSES[c] ELSE Undefined
    IN  IF addr = Undefined \/ addr = ZeroHexAddress
        THEN [threw |-> TRUE]
        ELSE [threw |-> FALSE, value |-> addr]

\* Home: contractAddress = chainId ? getNeonCryptAddress(chainId) : undefined,
\* and undefined when that throws
contractAddress(c) ==
    IF c # 0
    THEN IF getNeonCryptAddress(c).threw THEN Undefined ELSE getNeonCryptAddress(c).value
    ELSE Undefined

\* texts a user may have in the input, as sequences of characters
Texts == {<< >>, <<" ">>, <<"h">>}

RECURSIVE TrimStart(_)
TrimStart(s) == IF s # << >> /\ Head(s) = " " THEN TrimStart(Tail(s)) ELSE s

RECURSIVE TrimEnd(_)
TrimEnd(s) ==
    IF s # << >> /\ s[Len(s)] = " " THEN TrimEnd(SubSeq(s, 1, Len(s) - 1)) ELSE s

\* String.prototype.trim
trim(s) == TrimEnd(TrimStart(s))

\* what a render of Home and ChatInput hands to the handlers it creates
Snapshot ==
    [message |-> message, isSending |-> isSending, address |-> address,
     walletClient |-> walletClient, chainId |-> chainId]

isConnected(a) == a # NoAccount

\* <ChatInput disabled={!isConnected || !contractAddress} />
disabled(r) == ~isConnected(r.address) \/ contractAddress(r.chainId) = Undefined

\* ------------------------------------------------------- lib/fhevm: values
\* null as the value of an instance, metadata or domain cache, and as that of
\* cachedUserAddress
Null == [null |-> TRUE]
NullAddress == "null"

\* the module as loaded: nothing cached, the WASM not initialised, no call running
InitFhevm ==
    /\ fhevmInstance = Null
    /\ mockFhevmInstance = Null
    /\ isInitialized = FALSE
    /\ cachedUserAddress = NullAddress
    /\ cachedMetadata = Null
    /\ cachedInputVerifierEip712Domain = Null
    /\ cachedKmsVerifierEip712Domain = Null
    /\ calls = EmptyBag

\* ------------------------------------------------------------- Home: values
\* a chain id that is undefined
NoChainId == 0

\* data of useReadContract: undefined, or the list of ids read
NoData == [data |-> FALSE]
Data(ids) == [data |-> TRUE, ids |-> ids]

\* the id lists a user's getUserMessages query returns over time
IdLists == {<< >>, <<0>>, <<0, 1>>}

\* Home before its first render
InitHome ==
    /\ previousChainId = NoChainId
    /\ pageMessages = << >>
    /\ userMessageIds = NoData
    /\ networkDeps = << >>
    /\ loadDeps = << >>
    /\ loads = {}
    /\ loadCount = 0
    /\ shownRun = 0
    /\ seenChainId = NoChainId

\* the page as first rendered: no wallet connected, nothing typed, nothing sent
InitClient ==
    /\ chainId = HardhatId
    /\ address = NoAccount
    /\ walletClient = FALSE
    /\ provider = TRUE
    /\ message = << >>
    /\ isSending = FALSE
    /\ rendered = [message |-> << >>, isSending |-> FALSE, address |-> NoAccount,
                   walletClient |-> FALSE, chainId |-> HardhatId]
    /\ sends = EmptyBag
    /\ InitFhevm
    /\ InitHome

Init ==
    /\ totalMessages = 0
    /\ messages = [id \in Ids |-> DefaultMessage]
    /\ userMessages = [a \in Addresses |-> << >>]
    /\ grants = {}
    /\ events = << >>
    /\ now = 1   \* the block of the deployment
    /\ lastCall = NoCall
    /\ history = << >>
    /\ InitClient

\* ------------------------------------------------------ transaction outcome
\* A transaction that ran to its end commits the state it built; one that
\* reverted leaves the state it started from.
Settle_NoRollback(L, R) ==
    /\ totalMessages' = R.st.total
    /\ messages' = R.st.msgs
    /\ userMessages' = R.st.idx
    /\ grants' = R.st.acl
    /\ events' = R.st.log

Settle(L, R) ==
    LET S == IF R.status = "ok" THEN R.st ELSE L IN
    /\ totalMessages' = S.total
    /\ messages' = S.msgs
    /\ userMessages' = S.idx
    /\ grants' = S.acl
    /\ events' = S.log

\* ----------------------------------------------------------- submitMessage
\* FHE.fromExternal(encryptedContent, inputProof): the verified input, as euint32
fromExternal(h, proof) == h

\* uint256 messageId = _totalMessages++ : the id is the count before the increment
PostIncrement_Pre(total) == total + 1

PostIncrement_Reuse(total) == IF total > 0 THEN total - 1 ELSE 0

PostIncrement(total) == total

MessageSubmitted_NextId(sender, messageId, timestamp) ==
    [name |-> "MessageSubmitted", sender |-> sender, messageId |-> messageId + 1,
     timestamp |-> timestamp]

MessageSubmitted(sender, messageId, timestamp) ==
    [name |-> "MessageSubmitted", sender |-> sender, messageId |-> messageId,
     timestamp |-> timestamp]

MessageDeleted(sender, messageId) ==
    [name |-> "MessageDeleted", sender |-> sender, messageId |-> messageId]

\* lines 62-73: allocate the id, store the record, push the id on the caller's list
StoreMessage_PushCount(L, content, caller) ==
    LET messageId == PostIncrement(L.total) IN
    [L EXCEPT !.total = @ + 1,
              !.msgs[messageId] = [encryptedContent |-> content, timestamp |-> now,
                                   sender |-> caller, isActive |-> TRUE],
              !.idx[caller] = Append(@, L.total + 1)]

StoreMessage_NoCount(L, content, caller) ==
    LET messageId == PostIncrement(L.total) IN
    [L EXCEPT !.msgs[messageId] = [encryptedContent |-> content, timestamp |-> now,
                                   sender |-> caller, isActive |-> TRUE],
              !.idx[caller] = Append(@, messageId)]

StoreMessage_DoubleCount(L, content, caller) ==
    LET messageId == PostIncrement(L.total) IN
    [L EXCEPT !.total = @ + 2,
              !.msgs[messageId] = [encryptedContent |-> content, timestamp |-> now,
                                   sender |-> caller, isActive |-> TRUE],
              !.idx[caller] = Append(@, messageId)]

StoreMessage(L, content, caller) ==
    LET messageId == PostIncrement(L.total) IN
    [L EXCEPT !.total = @ + 1,
              !.msgs[messageId] = [encryptedContent |-> content, timestamp |-> now,
                                   sender |-> caller, isActive |-> TRUE],
              !.idx[caller] = Append(@, messageId)]

\* FHE.allowThis(content) / FHE.allow(content, account)
Allow(L, content, account) == [L EXCEPT !.acl = @ \cup {<<content, account>>}]

Emit(L, e) == [L EXCEPT !.log = Append(@, e)]

\* The body of submitMessage run on L: the status it ends with, the state it has
\* built by then and the library calls it has made.
SubmitRun_CheckLate(L, caller, h, proof, fail) ==
    IF fail = "fromExternal" \/ Len(proof) = 0
    THEN [status |-> IF fail = "fromExternal" THEN ErrAuthority ELSE ErrEmptyProof,
          st |-> L, auth |-> <<"fromExternal">>]
    ELSE LET content == fromExternal(h, proof)
             L1 == StoreMessage(L, content, caller)
             L2 == Allow(L1, content, ThisContract)
             L3 == Allow(L2, content, caller)
             L4 == Emit(L3, MessageSubmitted(caller, PostIncrement(L.total), now))
         IN  IF fail = "allowThis"
             THEN [status |-> ErrAuthority, st |-> L1,
                   auth |-> <<"fromExternal", "allowThis">>]
             ELSE IF fail = "allow"
             THEN [status |-> ErrAuthority, st |-> L2,
                   auth |-> <<"fromExternal", "allowThis", "allow">>]
             ELSE [status |-> "ok", st |-> L4,
                   auth |-> <<"fromExternal", "allowThis", "allow">>]

SubmitRun(L, caller, h, proof, fail) ==
    IF ~(Len(proof) > 0)
    THEN [status |-> ErrEmptyProof, st |-> L, auth |-> << >>]
    ELSE IF fail = "fromExternal"
    THEN [status |-> ErrAuthority, st |-> L, auth |-> <<"fromExternal">>]
    ELSE LET content == fromExternal(h, proof)
             L1 == StoreMessage(L, content, caller)
             L2 == Allow(L1, content, ThisContract)
             L3 == Allow(L2, content, caller)
             L4 == Emit(L3, MessageSubmitted(caller, PostIncrement(L.total), now))
         IN  IF fail = "allowThis"
             THEN [status |-> ErrAuthority, st |-> L1,
                   auth |-> <<"fromExternal", "allowThis">>]
             ELSE IF fail = "allow"
             THEN [status |-> ErrAuthority, st |-> L2,
                   auth |-> <<"fromExternal", "allowThis", "allow">>]
             ELSE [status |-> "ok", st |-> L4,
                   auth |-> <<"fromExternal", "allowThis", "allow">>]

submitMessage(caller, h, proof, fail) ==
    LET R == SubmitRun(Ledger, caller, h, proof, fail) IN
    \* the counter is capped: no record is written beyond MaxMessages
    /\ totalMessages < MaxMessages \/ Len(proof) = 0 \/ fail = "fromExternal"
    /\ Settle(Ledger, R)
    /\ lastCall' = [op |-> "submitMessage", caller |-> caller, proofLen |-> Len(proof),
                    fail |-> fail, status |-> R.status, auth |-> R.auth]
    /\ history' = IF R.status = "ok"
                  THEN Append(history, [op |-> "submitMessage", caller |-> caller,
                                        handle |-> h, time |-> now])
                  ELSE history
    /\ UNCHANGED <<now, client>>

\* ----------------------------------------------------------- deleteMessage
DeleteRun_OwnerCheckLast(L, caller, messageId) ==
    IF ~(messageId < L.total)
    THEN [status |-> ErrNotFound, st |-> L]
    ELSE LET msg_ == L.msgs[messageId] IN
         IF ~msg_.isActive
         THEN [status |-> ErrAlreadyDeleted, st |-> L]
         ELSE IF ~(msg_.sender = caller)
         THEN [status |-> ErrNotOwner, st |-> L]
         ELSE [status |-> "ok",
               st |-> Emit([L EXCEPT !.msgs[messageId].isActive = FALSE],
                           MessageDeleted(caller, messageId))]

DeleteRun_NoOwnerCheck(L, caller, messageId) ==
    IF ~(messageId < L.total)
    THEN [status |-> ErrNotFound, st |-> L]
    ELSE LET msg_ == L.msgs[messageId] IN
         IF ~msg_.isActive
         THEN [status |-> ErrAlreadyDeleted, st |-> L]
         ELSE [status |-> "ok",
               st |-> Emit([L EXCEPT !.msgs[messageId].isActive = FALSE],
                           MessageDeleted(caller, messageId))]

DeleteRun_SilentRepeat(L, caller, messageId) ==
    IF ~(messageId < L.total)
    THEN [status |-> ErrNotFound, st |-> L]
    ELSE LET msg_ == L.msgs[messageId] IN
         IF ~(msg_.sender = caller)
         THEN [status |-> ErrNotOwner, st |-> L]
         ELSE IF ~msg_.isActive
         THEN [status |-> "ok", st |-> L]
         ELSE [status |-> "ok",
               st |-> Emit([L EXCEPT !.msgs[messageId].isActive = FALSE],
                           MessageDeleted(caller, messageId))]

DeleteRun_HardDelete(L, caller, messageId) ==
    IF ~(messageId < L.total)
    THEN [status |-> ErrNotFound, st |-> L]
    ELSE LET msg_ == L.msgs[messageId] IN
         IF ~(msg_.sender = caller)
         THEN [status |-> ErrNotOwner, st |-> L]
         ELSE IF ~msg_.isActive
         THEN [status |-> ErrAlreadyDeleted, st |-> L]
         ELSE [status |-> "ok",
               st |-> Emit([L EXCEPT !.msgs[messageId] =
                                [@ EXCEPT !.encryptedContent = ZeroHandle,
                                          !.isActive = FALSE]],
                           MessageDeleted(caller, messageId))]

DeleteRun_RemoveFromIndex(L, caller, messageId) ==
    IF ~(messageId < L.total)
    THEN [status |-> ErrNotFound, st |-> L]
    ELSE LET msg_ == L.msgs[messageId] IN
         IF ~(msg_.sender = caller)
         THEN [status |-> ErrNotOwner, st |-> L]
         ELSE IF ~msg_.isActive
         THEN [status |-> ErrAlreadyDeleted, st |-> L]
         ELSE [status |-> "ok",
               st |-> Emit([L EXCEPT !.msgs[messageId].isActive = FALSE,
                                     !.idx[caller] =
                                         SelectSeq(@, LAMBDA x : x # messageId)],
                           MessageDeleted(caller, messageId))]

DeleteRun_Toggle(L, caller, messageId) ==
    IF ~(messageId < L.total)
    THEN [status |-> ErrNotFound, st |-> L]
    ELSE LET msg_ == L.msgs[messageId] IN
         IF ~(msg_.sender = caller)
         THEN [status |-> ErrNotOwner, st |-> L]
         ELSE [status |-> "ok",
               st |-> Emit([L EXCEPT !.msgs[messageId].isActive = ~@],
                           MessageDeleted(caller, messageId))]

DeleteRun_NoEmit(L, caller, messageId) ==
    IF ~(messageId < L.total)
    THEN [status |-> ErrNotFound, st |-> L]
    ELSE LET msg_ == L.msgs[messageId] IN
         IF ~(msg_.sender = caller)
         THEN [status |-> ErrNotOwner, st |-> L]
         ELSE IF ~msg_.isActive
         THEN [status |-> ErrAlreadyDeleted, st |-> L]
         ELSE [status |-> "ok", st |-> [L EXCEPT !.msgs[messageId].isActive = FALSE]]

DeleteRun_RevokeGrant(L, caller, messageId) ==
    IF ~(messageId < L.total)
    THEN [status |-> ErrNotFound, st |-> L]
    ELSE LET msg_ == L.msgs[messageId] IN
         IF ~(msg_.sender = caller)
         THEN [status |-> ErrNotOwner, st |-> L]
         ELSE IF ~msg_.isActive
         THEN [status |-> ErrAlreadyDeleted, st |-> L]
         ELSE [status |-> "ok",
               st |-> Emit([L EXCEPT !.msgs[messageId].isActive = FALSE,
                                     !.acl = @ \ {<<msg_.encryptedContent, caller>>}],
                           MessageDeleted(caller, messageId))]

DeleteRun_PopLast(L, caller, messageId) ==
    IF ~(messageId < L.total)
    THEN [status |-> ErrNotFound, st |-> L]
    ELSE LET msg_ == L.msgs[messageId] IN
         IF ~(msg_.sender = caller)
         THEN [status |-> ErrNotOwner, st |-> L]
         ELSE IF ~msg_.isActive
         THEN [status |-> ErrAlreadyDeleted, st |-> L]
         ELSE [status |-> "ok",
               st |-> Emit([L EXCEPT !.msgs[messageId].isActive = FALSE,
                                     !.total = IF messageId = L.total - 1
                                               THEN @ - 1 ELSE @],
                           MessageDeleted(caller, messageId))]

DeleteRun(L, caller, messageId) ==
    IF ~(messageId < L.total)
    THEN [status |-> ErrNotFound, st |-> L]
    ELSE LET msg_ == L.msgs[messageId] IN
         IF ~(msg_.sender = caller)
         THEN [status |-> ErrNotOwner, st |-> L]
         ELSE IF ~msg_.isActive
         THEN [status |-> ErrAlreadyDeleted, st |-> L]
         ELSE [status |-> "ok",
               st |-> Emit([L EXCEPT !.msgs[messageId].isActive = FALSE],
                           MessageDeleted(caller, messageId))]

deleteMessage(caller, messageId) ==
    LET R == DeleteRun(Ledger, caller, messageId) IN
    /\ Settle(Ledger, R)
    /\ lastCall' = [op |-> "deleteMessage", caller |-> caller, messageId |-> messageId,
                    status |-> R.status]
    /\ history' = IF R.status = "ok"
                  THEN Append(history, [op |-> "deleteMessage", caller |-> caller,
                                        messageId |-> messageId])
                  ELSE history
    /\ UNCHANGED <<now, client>>

\* ------------------------------------------------------------------- views
getMessage_OffByOne(messageId) ==
    IF ~(messageId <= totalMessages)
    THEN [status |-> ErrNotFound]
    ELSE LET msg_ == messages[messageId] IN
         [status |-> "ok", encryptedContent |-> msg_.encryptedContent,
          timestamp |-> msg_.timestamp, sender |-> msg_.sender,
          isActive |-> msg_.isActive]

getMessage_NoHandle(messageId) ==
    IF ~(messageId < totalMessages)
    THEN [status |-> ErrNotFound]
    ELSE LET msg_ == messages[messageId] IN
         [status |-> "ok", encryptedContent |-> ZeroHandle,
          timestamp |-> msg_.timestamp, sender |-> msg_.sender,
          isActive |-> msg_.isActive]

getMessage(messageId) ==
    IF ~(messageId < totalMessages)
    THEN [status |-> ErrNotFound]
    ELSE LET msg_ == messages[messageId] IN
         [status |-> "ok", encryptedContent |-> msg_.encryptedContent,
          timestamp |-> msg_.timestamp, sender |-> msg_.sender,
          isActive |-> msg_.isActive]

getUserMessages(user) == userMessages[user]

getTotalMessages == totalMessages

isMessageActive_OffByOne(messageId) ==
    IF messageId > totalMessages
    THEN <<FALSE, FALSE>>
    ELSE <<TRUE, messages[messageId].isActive>>

isMessageActive(messageId) ==
    IF messageId >= totalMessages
    THEN <<FALSE, FALSE>>
    ELSE <<TRUE, messages[messageId].isActive>>

\* a view call: the state is read, never written
callGetMessage(messageId) ==
    /\ lastCall' = [op |-> "getMessage", messageId |-> messageId,
                    ret |-> getMessage(messageId)]
    /\ UNCHANGED <<ledger, now, history, client>>

callGetUserMessages(user) ==
    /\ lastCall' = [op |-> "getUserMessages", user |-> user,
                    ret |-> getUserMessages(user)]
    /\ UNCHANGED <<ledger, now, history, client>>

callGetTotalMessages ==
    /\ lastCall' = [op |-> "getTotalMessages", ret |-> getTotalMessages]
    /\ UNCHANGED <<ledger, now, history, client>>

callIsMessageActive(messageId) ==
    /\ lastCall' = [op |-> "isMessageActive", messageId |-> messageId,
                    ret |-> isMessageActive(messageId)]
    /\ UNCHANGED <<ledger, now, history, client>>

\* ------------------------------------------------------------- environment
\* a later block: block.timestamp never goes backwards
Tick ==
    /\ \E t \in BlockTimes : t > now /\ now' = t
    /\ lastCall' = NoCall
    /\ UNCHANGED <<ledger, history, client>>

\* with an empty proof the library is never reached, so its outcome is left open
\* only for a non-empty one
SubmitInputs == {pf \in Proofs \X AuthorityFailures : Len(pf[1]) = 0 => pf[2] = "none"}

Submit == \E c \in Users, h \in Handles, pf \in SubmitInputs :
              submitMessage(c, h, pf[1], pf[2])

Delete == \E c \in Users, id \in Ids : deleteMessage(c, id)

GetMessage == \E id \in Ids : callGetMessage(id)

GetUserMessages == \E a \in Addresses : callGetUserMessages(a)

IsMessageActive == \E id \in Ids : callIsMessageActive(id)

Next ==
    \/ Submit
    \/ Delete
    \/ GetMessage
    \/ GetUserMessages
    \/ callGetTotalMessages
    \/ IsMessageActive
    \/ Tick

Spec == Init /\ [][Next]_vars

\* ------------------------------------------------- the other view functions
getMessageCount_ActiveOnly(user) ==
    Cardinality({i \in 1..Len(userMessages[user]) : messages[userMessages[user][i]].isActive})

getMessageCount(user) == Len(userMessages[user])

\* the arrays `new T[](length)` allocates: every element the type's default
NewArray(length, default) == [i \in 1..length |-> default]

\* the loop of getUserMessageMetadata from index i on (indexes here start at 1)
RECURSIVE MetadataLoop(_, _, _, _)
MetadataLoop(userMsgIds, length, i, out) ==
    IF ~(i <= length)
    THEN out
    ELSE LET msgId == userMsgIds[i]
             msg_ == messages[msgId]
         IN  MetadataLoop(userMsgIds, length, i + 1,
                 [out EXCEPT !.timestamps[i] = msg_.timestamp,
                             !.messageIds[i] = msgId,
                             !.activeStatus[i] = msg_.isActive])

getUserMessageMetadata_ShortLoop(user) ==
    LET userMsgIds == userMessages[user]
        length == Len(userMsgIds)
    IN  MetadataLoop(userMsgIds, length - 1, 1,
            [timestamps |-> NewArray(length, 0),
             messageIds |-> NewArray(length, 0),
             activeStatus |-> NewArray(length, FALSE)])

getUserMessageMetadata(user) ==
    LET userMsgIds == userMessages[user]
        length == Len(userMsgIds)
    IN  MetadataLoop(userMsgIds, length, 1,
            [timestamps |-> NewArray(length, 0),
             messageIds |-> NewArray(length, 0),
             activeStatus |-> NewArray(length, FALSE)])

\* the loop of getMessagesBatch from index i on: a failed require reverts the call,
\* and a reverted call returns nothing
RECURSIVE BatchLoop_SkipInvalid(_, _, _)
BatchLoop_SkipInvalid(messageIds, i, out) ==
    IF ~(i <= Len(messageIds))
    THEN [status |-> "ok"] @@ out
    ELSE LET msgId == messageIds[i] IN
         IF ~(msgId < totalMessages)
         THEN BatchLoop_SkipInvalid(messageIds, i + 1, out)
         ELSE LET msg_ == messages[msgId] IN
              BatchLoop_SkipInvalid(messageIds, i + 1,
                  [out EXCEPT !.timestamps[i] = msg_.timestamp,
                              !.senders[i] = msg_.sender,
                              !.activeStatuses[i] = msg_.isActive])

RECURSIVE BatchLoop_FirstRow(_, _, _)
BatchLoop_FirstRow(messageIds, i, out) ==
    IF ~(i <= Len(messageIds))
    THEN [status |-> "ok"] @@ out
    ELSE LET msgId == messageIds[i] IN
         IF ~(msgId < totalMessages)
         THEN [status |-> ErrNotFound]
         ELSE LET msg_ == messages[messageIds[1]] IN
              BatchLoop_FirstRow(messageIds, i + 1,
                  [out EXCEPT !.timestamps[i] = msg_.timestamp,
                              !.senders[i] = msg_.sender,
                              !.activeStatuses[i] = msg_.isActive])

RECURSIVE BatchLoop(_, _, _)
BatchLoop(messageIds, i, out) ==
    IF ~(i <= Len(messageIds))
    THEN [status |-> "ok"] @@ out
    ELSE LET msgId == messageIds[i] IN
         IF ~(msgId < totalMessages)
         THEN [status |-> ErrNotFound]
         ELSE LET msg_ == messages[msgId] IN
              BatchLoop(messageIds, i + 1,
                  [out EXCEPT !.timestamps[i] = msg_.timestamp,
                              !.senders[i] = msg_.sender,
                              !.activeStatuses[i] = msg_.isActive])

getMessagesBatch(messageIds) ==
    LET length == Len(messageIds) IN
    BatchLoop(messageIds, 1,
        [timestamps |-> NewArray(length, 0),
         senders |-> NewArray(length, ZeroAddress),
         activeStatuses |-> NewArray(length, FALSE)])

callGetMessageCount(user) ==
    /\ lastCall' = [op |-> "getMessageCount", user |-> user,
                    ret |-> getMessageCount(user)]
    /\ UNCHANGED <<ledger, now, history, client>>

callGetUserMessageMetadata_Prunes(user) ==
    /\ lastCall' = [op |-> "getUserMessageMetadata", user |-> user,
                    ret |-> getUserMessageMetadata(user)]
    /\ userMessages' = [userMessages EXCEPT ![user] =
                            SelectSeq(@, LAMBDA x : messages[x].isActive)]
    /\ UNCHANGED <<totalMessages, messages, grants, events, now, history, client>>

callGetUserMessageMetadata(user) ==
    /\ lastCall' = [op |-> "getUserMessageMetadata", user |-> user,
                    ret |-> getUserMessageMetadata(user)]
    /\ UNCHANGED <<ledger, now, history, client>>

callGetMessagesBatch(messageIds) ==
    /\ lastCall' = [op |-> "getMessagesBatch", messageIds |-> messageIds,
                    ret |-> getMessagesBatch(messageIds)]
    /\ UNCHANGED <<ledger, now, history, client>>

\* the id lists a caller may hand to getMessagesBatch: any order, duplicates allowed
Batches == UNION {[1..n -> Ids] : n \in 0..MaxBatch}

GetMessageCount == \E a \in Addresses : callGetMessageCount(a)

GetUserMessageMetadata == \E a \in Addresses : callGetUserMessageMetadata(a)

GetMessagesBatch == \E ids \in Batches : callGetMessagesBatch(ids)

\* No view function depends on which handle a record holds beyond handing it
\* back, so the specifications below submit one handle.
ReadHandles == {11}

SubmitOne == \E c \in Users, h \in ReadHandles, pf \in SubmitInputs :
                 submitMessage(c, h, pf[1], pf[2])

\* The contract with getMessagesBatch called on every id list up to MaxBatch.
NextBatch ==
    \/ SubmitOne
    \/ Delete
    \/ GetMessagesBatch
    \/ Tick

SpecBatch == Init /\ [][NextBatch]_vars

\* The contract with all seven view functions called; getMessagesBatch on the
\* empty list and on every single id.
ShortBatches == {ids \in Batches : Len(ids) <= 1}

GetMessagesBatchShort == \E ids \in ShortBatches : callGetMessagesBatch(ids)

NextReads ==
    \/ SubmitOne
    \/ Delete
    \/ GetMessage
    \/ GetUserMessages
    \/ GetMessageCount
    \/ GetUserMessageMetadata
    \/ callGetTotalMessages
    \/ GetMessagesBatchShort
    \/ IsMessageActive
    \/ Tick

SpecReads == Init /\ [][NextReads]_vars

\* ----------------------------------------------------- the web client: steps
\* the wallet, as the hooks of Home report it
Connect ==
    /\ address = NoAccount
    /\ \E u \in {"alice"} : address' = u
    /\ walletClient' = FALSE
    /\ lastCall' = NoCall
    /\ UNCHANGED <<ledger, now, history, lib, chainId, provider, chatInput>>

\* useWalletClient resolves some time after the account is connected
WalletClientReady ==
    /\ address # NoAccount /\ ~walletClient
    /\ walletClient' = TRUE
    /\ lastCall' = NoCall
    /\ UNCHANGED <<ledger, now, history, lib, chainId, address, provider, chatInput>>

Disconnect ==
    /\ address # NoAccount
    /\ address' = NoAccount
    /\ walletClient' = FALSE
    /\ lastCall' = NoCall
    /\ UNCHANGED <<ledger, now, history, lib, chainId, provider, chatInput>>

SwitchChain(c) ==
    /\ c # chainId
    /\ chainId' = c
    /\ lastCall' = NoCall
    /\ UNCHANGED <<ledger, now, history, lib, address, walletClient, provider, chatInput>>

\* a wallet extension defines window.ethereum, or is disabled
ProviderChange ==
    /\ provider' = ~provider
    /\ lastCall' = NoCall
    /\ UNCHANGED <<ledger, now, history, lib, chainId, address, walletClient, chatInput>>

\* React renders: the handlers are created anew over the current values
Render ==
    /\ rendered # Snapshot
    /\ rendered' = Snapshot
    /\ lastCall' = NoCall
    /\ UNCHANGED <<ledger, now, history, lib, wallet, message, isSending, sends>>

\* <Input onChange={(e) => setMessage(e.target.value)} disabled={disabled} />
onChange(t) ==
    /\ ~disabled(rendered)
    /\ t # message
    /\ message' = t
    /\ lastCall' = NoCall
    /\ UNCHANGED <<ledger, now, history, lib, wallet, isSending, rendered, sends>>

\* ChatInput lines 22-24, run when the awaited onSend has settled without a throw:
\* setMessage(""), then the finally block's setIsSending(false)
AfterOnSend ==
    /\ message' = << >>
    /\ isSending' = FALSE

\* handleSendMessage up to its first await, with the values of the render r:
\* the toast it returns with, or "pending" when it goes on to encryptUint32
handleSendMessage(r) ==
    IF ~r.walletClient \/ r.address = NoAccount \/ contractAddress(r.chainId) = Undefined
    THEN "Wallet not connected"
    ELSE IF ~provider
    THEN "No wallet provider found"
    ELSE "pending"

NewSend(r) == [pc |-> "encryptUint32", caller |-> r.address, handle |-> ZeroHandle]

\* handleSend, called by a click on the button or by Enter in the input, sees the
\* message, isSending and disabled of the render that created it
handleSend ==
    /\ trim(rendered.message) # << >> /\ ~disabled(rendered) /\ ~rendered.isSending
    /\ LET o == handleSendMessage(rendered) IN
         IF o = "pending"
         THEN /\ BagCardinality(sends) < MaxSends
              /\ isSending' = TRUE
              /\ sends' = sends (+) SetToBag({NewSend(rendered)})
              /\ lastCall' = [op |-> "onSend", text |-> rendered.message]
              /\ UNCHANGED message
         ELSE \* onSend has returned already: the await resumes at once
              /\ AfterOnSend
              /\ lastCall' = [op |-> "onSendSettled", outcome |-> o, submitted |-> FALSE]
              /\ UNCHANGED sends
    /\ UNCHANGED <<ledger, now, history, lib, wallet, rendered>>

\* await encryptUint32(...) settles: a handle and proof, or a throw that the catch
\* block of handleSendMessage turns into a toast
encryptUint32Settles(s, ok) ==
    /\ BagIn(s, sends) /\ s.pc = "encryptUint32"
    /\ IF ok
       THEN /\ \E h \in ReadHandles :
                 sends' = (sends (-) SetToBag({s})) (+)
                          SetToBag({[s EXCEPT !.pc = "writeContractAsync", !.handle = h]})
            /\ lastCall' = [op |-> "encryptUint32"]
            /\ UNCHANGED <<message, isSending>>
       ELSE /\ sends' = sends (-) SetToBag({s})
            /\ AfterOnSend
            /\ lastCall' = [op |-> "onSendSettled", outcome |-> "Failed to send",
                            submitted |-> FALSE]
    /\ UNCHANGED <<ledger, now, history, lib, wallet, rendered>>

\* await writeContractAsync({functionName: "submitMessage", ...}) settles: the
\* wallet refuses, or the transaction runs on the contract and commits or reverts
writeContractAsyncSettles(s, fail) ==
    /\ BagIn(s, sends) /\ s.pc = "writeContractAsync"
    /\ IF fail = "rejected"
       THEN /\ sends' = sends (-) SetToBag({s})
            /\ AfterOnSend
            /\ lastCall' = [op |-> "onSendSettled", outcome |-> "Failed to send",
                            submitted |-> FALSE]
            /\ UNCHANGED <<ledger, history>>
       ELSE LET R == SubmitRun(Ledger, s.caller, s.handle, <<171>>, fail) IN
            /\ totalMessages < MaxMessages \/ fail = "fromExternal"
            /\ Settle(Ledger, R)
            /\ IF R.status = "ok"
               THEN /\ sends' = (sends (-) SetToBag({s})) (+)
                                SetToBag({[s EXCEPT !.pc = "refetchMessages"]})
                    /\ history' = Append(history, [op |-> "submitMessage", caller |-> s.caller,
                                                   handle |-> s.handle, time |-> now])
                    /\ lastCall' = [op |-> "writeContractAsync"]
                    /\ UNCHANGED <<message, isSending>>
               ELSE /\ sends' = sends (-) SetToBag({s})
                    /\ AfterOnSend
                    /\ lastCall' = [op |-> "onSendSettled", outcome |-> "Failed to send",
                                    submitted |-> FALSE]
                    /\ UNCHANGED history
    /\ UNCHANGED <<now, lib, wallet, rendered>>

\* await refetchMessages() settles; a throw is caught like the others
refetchMessagesSettles(s, ok) ==
    /\ BagIn(s, sends) /\ s.pc = "refetchMessages"
    /\ sends' = sends (-) SetToBag({s})
    /\ AfterOnSend
    /\ lastCall' = [op |-> "onSendSettled",
                    outcome |-> IF ok THEN "Message sent" ELSE "Failed to send",
                    submitted |-> TRUE]
    /\ UNCHANGED <<ledger, now, history, lib, wallet, rendered>>

Type == \E t \in Texts : onChange(t)

Switch == \E c \in ChainIds : SwitchChain(c)

EncryptSettles == \E s \in BagToSet(sends), ok \in BOOLEAN : encryptUint32Settles(s, ok)

WriteSettles ==
    \E s \in BagToSet(sends), fail \in AuthorityFailures \cup {"rejected"} :
        writeContractAsyncSettles(s, fail)

RefetchSettles == \E s \in BagToSet(sends), ok \in BOOLEAN : refetchMessagesSettles(s, ok)

\* the page with its wallet, its input and the contract behind it
NextChat ==
    \/ Connect
    \/ WalletClientReady
    \/ Disconnect
    \/ Switch
    \/ ProviderChange
    \/ Render
    \/ Type
    \/ handleSend
    \/ EncryptSettles
    \/ WriteSettles
    \/ RefetchSettles

SpecChat == Init /\ [][NextChat]_vars

\* -------------------------------------------------------- lib/fhevm: steps
\* the most calls into lib/fhevm followed while they wait on an await
MaxCalls == 2

LOCAL_CHAIN_ID == HardhatId

isLocalNetwork(c) == c = LOCAL_CHAIN_ID

\* JavaScript numbers of the size the client handles, as value = hi * 2^16 + lo
\* with 0 <= lo < 2^16, negated when neg
Limb == 65536
Num(neg, hi, lo) == [neg |-> neg, hi |-> hi, lo |-> lo]
NumZero == Num(FALSE, 0, 0)
\* 4294967295
UINT32_MAX == Num(FALSE, Limb - 1, Limb - 1)

\* a < b
NumLess(a, b) ==
    IF a.neg /\ ~b.neg THEN a # Num(TRUE, 0, 0) \/ b # NumZero
    ELSE IF ~a.neg /\ b.neg THEN FALSE
    ELSE IF a.neg THEN b.hi < a.hi \/ (b.hi = a.hi /\ b.lo < a.lo)
    ELSE a.hi < b.hi \/ (a.hi = b.hi /\ a.lo < b.lo)

\* the values, contract addresses and user addresses encryptUint32 is called with:
\* -1, 0, 42, 4294967295, 4294967296; the empty, the zero and a deployed address
EncryptValues ==
    {Num(TRUE, 0, 1), NumZero, Num(FALSE, 0, 42), UINT32_MAX, Num(FALSE, Limb, 0)}
EncryptContracts == {"", ZeroHexAddress, HardhatDeployment}
EncryptUsers == {"", ZeroHexAddress} \cup Users

\* an instance remembers the userAddress of the call that created it; an instance,
\* metadata or domain is stale when clearFhevmCache ran after its creation or fetch
\* began
Instance(user, stale) == [user |-> user, stale |-> stale]
Fetched(stale) == [stale |-> stale]

NewCall(fn, user) == [fn |-> fn, user |-> user, pc |-> "start", stale |-> FALSE]

\* the call goes on to its next await
Move(c, pc) ==
    /\ calls' = (calls (-) SetToBag({c})) (+) SetToBag({[c EXCEPT !.pc = pc, !.stale = FALSE]})
    /\ lastCall' = [op |-> "resumed"]

Return(c, ret, created) ==
    /\ calls' = calls (-) SetToBag({c})
    /\ lastCall' = [op |-> "returned", user |-> c.user, ret |-> ret, created |-> created]

Throw(c) ==
    /\ calls' = calls (-) SetToBag({c})
    /\ lastCall' = [op |-> "threw"]

\* createMockInstance after its cache test failed: the first of fetchFhevmMetadata,
\* fetchInputVerifierEip712Domain and fetchKmsVerifierEip712Domain that finds its
\* cache empty waits for the node, and with all three cached
\* MockFhevmInstance.create is awaited
MockNext(metadata, inputVerifier, kmsVerifier) ==
    IF metadata = Null THEN "fetchFhevmMetadata"
    ELSE IF inputVerifier = Null THEN "fetchInputVerifierEip712Domain"
    ELSE IF kmsVerifier = Null THEN "fetchKmsVerifierEip712Domain"
    ELSE "MockFhevmInstance.create"

\* the parameter checks of encryptUint32: the error thrown, or "none"
encryptUint32_Validate(value, contract, user) ==
    IF NumLess(value, NumZero) \/ NumLess(UINT32_MAX, value) THEN "Invalid uint32 value"
    ELSE IF contract = "" \/ contract = ZeroHexAddress
    THEN "Invalid contract address provided for encryption."
    ELSE IF user = "" \/ user = ZeroHexAddress
    THEN "Invalid user address provided for encryption."
    ELSE "none"

\* encryptUint32 up to its first await: it throws, or calls getFhevmInstance, which
\* awaits getChainId(provider)
encryptUint32_CheckLate(value, contract, user) ==
    LET e == encryptUint32_Validate(value, contract, user) IN
    /\ BagCardinality(calls) < MaxCalls
    /\ calls' = calls (+)
           SetToBag({[NewCall("getFhevmInstance", user) EXCEPT !.pc = "getChainId"]})
    /\ lastCall' = [op |-> "encryptUint32 called", value |-> value,
                    contract |-> contract, user |-> user, threw |-> e]
    /\ UNCHANGED <<caches, isInitialized>>

encryptUint32(value, contract, user) ==
    LET e == encryptUint32_Validate(value, contract, user) IN
    /\ IF e # "none"
       THEN UNCHANGED calls
       ELSE /\ BagCardinality(calls) < MaxCalls
            /\ calls' = calls (+)
                   SetToBag({[NewCall("getFhevmInstance", user) EXCEPT !.pc = "getChainId"]})
    /\ lastCall' = [op |-> "encryptUint32 called", value |-> value,
                    contract |-> contract, user |-> user, threw |-> e]
    /\ UNCHANGED <<caches, isInitialized>>

\* initializeFhevm up to its first await
initializeFhevm ==
    /\ IF isInitialized
       THEN /\ lastCall' = [op |-> "returned", user |-> NullAddress, ret |-> Null,
                            created |-> FALSE]
            /\ UNCHANGED calls
       ELSE /\ BagCardinality(calls) < MaxCalls
            /\ calls' = calls (+)
                   SetToBag({[NewCall("initializeFhevm", NullAddress) EXCEPT !.pc = "fetchWasm"]})
            /\ lastCall' = [op |-> "initializeFhevm"]
    /\ UNCHANGED <<caches, isInitialized>>

\* getFhevmInstance after await getChainId(provider)
getChainIdSettles(c, ok) ==
    /\ BagIn(c, calls) /\ c.pc = "getChainId"
    /\ IF ~ok THEN Throw(c)
       ELSE IF isLocalNetwork(chainId)
       THEN IF mockFhevmInstance # Null /\ cachedUserAddress = c.user
            THEN Return(c, mockFhevmInstance, FALSE)
            ELSE Move(c, MockNext(cachedMetadata, cachedInputVerifierEip712Domain,
                                  cachedKmsVerifierEip712Domain))
       ELSE IF fhevmInstance # Null THEN Return(c, fhevmInstance, FALSE)
       ELSE IF ~isInitialized THEN Move(c, "fetchWasm")
       ELSE Move(c, "createInstance")
    /\ UNCHANGED <<caches, isInitialized>>

\* fetchFhevmMetadata after its rpc.send calls
fetchFhevmMetadataSettles(c, ok) ==
    /\ BagIn(c, calls) /\ c.pc = "fetchFhevmMetadata"
    /\ IF ~ok THEN Throw(c) /\ UNCHANGED cachedMetadata
       ELSE /\ cachedMetadata' = Fetched(c.stale)
            /\ Move(c, MockNext(Fetched(c.stale), cachedInputVerifierEip712Domain,
                                cachedKmsVerifierEip712Domain))
    /\ UNCHANGED <<fhevmInstance, mockFhevmInstance, cachedUserAddress,
                   cachedInputVerifierEip712Domain, cachedKmsVerifierEip712Domain,
                   isInitialized>>

\* fetchInputVerifierEip712Domain after await contract.eip712Domain()
fetchInputVerifierSettles(c, ok) ==
    /\ BagIn(c, calls) /\ c.pc = "fetchInputVerifierEip712Domain"
    /\ IF ~ok THEN Throw(c) /\ UNCHANGED cachedInputVerifierEip712Domain
       ELSE /\ cachedInputVerifierEip712Domain' = Fetched(c.stale)
            /\ Move(c, MockNext(Fetched(FALSE), Fetched(c.stale),
                                cachedKmsVerifierEip712Domain))
    /\ UNCHANGED <<fhevmInstance, mockFhevmInstance, cachedUserAddress, cachedMetadata,
                   cachedKmsVerifierEip712Domain, isInitialized>>

\* fetchKmsVerifierEip712Domain after await contract.eip712Domain()
fetchKmsVerifierSettles(c, ok) ==
    /\ BagIn(c, calls) /\ c.pc = "fetchKmsVerifierEip712Domain"
    /\ IF ~ok THEN Throw(c) /\ UNCHANGED cachedKmsVerifierEip712Domain
       ELSE /\ cachedKmsVerifierEip712Domain' = Fetched(c.stale)
            /\ Move(c, "MockFhevmInstance.create")
    /\ UNCHANGED <<fhevmInstance, mockFhevmInstance, cachedUserAddress, cachedMetadata,
                   cachedInputVerifierEip712Domain, isInitialized>>

\* createMockInstance after await MockFhevmInstance.create(...): lines 259-271
mockCreateSettles_NoUser(c, ok) ==
    /\ BagIn(c, calls) /\ c.pc = "MockFhevmInstance.create"
    /\ IF ~ok THEN Throw(c) /\ UNCHANGED mockFhevmInstance
       ELSE /\ mockFhevmInstance' = Instance(c.user, c.stale)
            /\ Return(c, Instance(c.user, c.stale), TRUE)
    /\ UNCHANGED <<fhevmInstance, cachedUserAddress, cachedMetadata,
                   cachedInputVerifierEip712Domain, cachedKmsVerifierEip712Domain,
                   isInitialized>>

mockCreateSettles(c, ok) ==
    /\ BagIn(c, calls) /\ c.pc = "MockFhevmInstance.create"
    /\ IF ~ok THEN Throw(c) /\ UNCHANGED <<mockFhevmInstance, cachedUserAddress>>
       ELSE /\ mockFhevmInstance' = Instance(c.user, c.stale)
            /\ cachedUserAddress' = c.user
            /\ Return(c, Instance(c.user, c.stale), TRUE)
    /\ UNCHANGED <<fhevmInstance, cachedMetadata, cachedInputVerifierEip712Domain,
                   cachedKmsVerifierEip712Domain, isInitialized>>

\* initializeFhevm after the two WASM files are fetched
fetchWasmSettles(c, ok) ==
    /\ BagIn(c, calls) /\ c.pc = "fetchWasm"
    /\ IF ~ok THEN Throw(c) ELSE Move(c, "initFhevm")
    /\ UNCHANGED <<caches, isInitialized>>

\* initializeFhevm after await initFhevm(...): isInitialized = true, and
\* getFhevmInstance goes on to createInstance
initFhevmSettles(c, ok) ==
    /\ BagIn(c, calls) /\ c.pc = "initFhevm"
    /\ IF ~ok THEN Throw(c) /\ UNCHANGED isInitialized
       ELSE /\ isInitialized' = TRUE
            /\ IF c.fn = "initializeFhevm"
               THEN Return(c, Null, FALSE)
               ELSE Move(c, "createInstance")
    /\ UNCHANGED caches

\* getFhevmInstance after await createInstance(...)
createInstanceSettles(c, ok) ==
    /\ BagIn(c, calls) /\ c.pc = "createInstance"
    /\ IF ~ok THEN Throw(c) /\ UNCHANGED fhevmInstance
       ELSE /\ fhevmInstance' = Instance(c.user, c.stale)
            /\ Return(c, Instance(c.user, c.stale), TRUE)
    /\ UNCHANGED <<mockFhevmInstance, cachedUserAddress, cachedMetadata,
                   cachedInputVerifierEip712Domain, cachedKmsVerifierEip712Domain,
                   isInitialized>>

\* clearFhevmCache: the six caches are emptied, isInitialized is kept; whatever
\* the running calls are waiting for began before this clear
clearFhevmCache ==
    /\ fhevmInstance' = Null
    /\ mockFhevmInstance' = Null
    /\ cachedMetadata' = Null
    /\ cachedUserAddress' = NullAddress
    /\ cachedInputVerifierEip712Domain' = Null
    /\ cachedKmsVerifierEip712Domain' = Null
    /\ calls' = BagOfAll(LAMBDA c : [c EXCEPT !.stale = TRUE], calls)
    /\ UNCHANGED isInitialized

\* everything outside lib/fhevm but the chain the wallet is on
notFhevm == <<ledger, now, history, address, walletClient, provider, chatInput, home>>

\* getFhevmInstance up to its first await, as encryptUint32 and decryptUint32 call it
getFhevmInstance(user) ==
    /\ BagCardinality(calls) < MaxCalls
    /\ calls' = calls (+) SetToBag({[NewCall("getFhevmInstance", user) EXCEPT !.pc = "getChainId"]})
    /\ lastCall' = [op |-> "getFhevmInstance"]
    /\ UNCHANGED <<caches, isInitialized>>

Encrypt ==
    \E v \in EncryptValues, a \in EncryptContracts, u \in EncryptUsers :
        encryptUint32(v, a, u) /\ UNCHANGED <<notFhevm, chainId>>

GetInstance == \E u \in Users : getFhevmInstance(u) /\ UNCHANGED <<notFhevm, chainId>>

Initialize == initializeFhevm /\ UNCHANGED <<notFhevm, chainId>>

Clear ==
    /\ clearFhevmCache
    /\ lastCall' = [op |-> "clearFhevmCache"]
    /\ UNCHANGED <<notFhevm, chainId>>

Settles ==
    \E c \in BagToSet(calls), ok \in BOOLEAN :
        /\ \/ getChainIdSettles(c, ok)
           \/ fetchFhevmMetadataSettles(c, ok)
           \/ fetchInputVerifierSettles(c, ok)
           \/ fetchKmsVerifierSettles(c, ok)
           \/ mockCreateSettles(c, ok)
           \/ fetchWasmSettles(c, ok)
           \/ initFhevmSettles(c, ok)
           \/ createInstanceSettles(c, ok)
        /\ UNCHANGED <<notFhevm, chainId>>

\* the networks the application is deployed on
DeployedChains == {HardhatId, SepoliaId}

SwitchNetwork ==
    \E c \in DeployedChains :
        /\ c # chainId
        /\ chainId' = c
        /\ lastCall' = NoCall
        /\ UNCHANGED <<notFhevm, fhevm>>

\* lib/fhevm under concurrent callers, cache clears and network switches
NextFhevm ==
    \/ GetInstance
    \/ Initialize
    \/ Clear
    \/ Settles
    \/ SwitchNetwork

SpecFhevm == Init /\ [][NextFhevm]_vars

SettlesMock ==
    \E c \in BagToSet(calls), ok \in BOOLEAN :
        /\ \/ getChainIdSettles(c, ok)
           \/ fetchFhevmMetadataSettles(c, ok)
           \/ fetchInputVerifierSettles(c, ok)
           \/ fetchKmsVerifierSettles(c, ok)
           \/ mockCreateSettles(c, ok)
        /\ UNCHANGED <<notFhevm, chainId>>

\* lib/fhevm on the local network, where every instance is a mock instance
NextMock ==
    \/ GetInstance
    \/ Clear
    \/ SettlesMock

SpecMock == Init /\ [][NextMock]_vars

\* encryptUint32 called with every combination of parameters on the local network
\* while earlier calls run
NextEncrypt ==
    \/ Encrypt
    \/ SettlesMock

SpecEncrypt == Init /\ [][NextEncrypt]_vars


\* ------------------------------------------------------------- properties
\* the successful creates so far, in order, and the ids successfully deleted
Creates == SelectSeq(history, LAMBDA e : e.op = "submitMessage")

DeletedIds ==
    {history[i].messageId : i \in {j \in 1..Len(history) : history[j].op = "deleteMessage"}}

\* C1: the i-th successful create (0-indexed) stores its record under id = i,
\* getTotalMessages equals the number of successful creates (0 after deployment),
\* and no two creates share an id: exactly as many slots are written as creates
\* succeeded, whatever deletes, reads and failed calls are interleaved.
C1_MonotonicIds ==
    /\ getTotalMessages = Len(Creates)
    /\ \A i \in 1..Len(Creates) :
          /\ messages[i - 1].sender = Creates[i].caller
          /\ messages[i - 1].encryptedContent = Creates[i].handle
          /\ messages[i - 1].timestamp = Creates[i].time
    /\ Cardinality({id \in Ids : messages[id] # DefaultMessage}) = Len(Creates)

\* two creates by different owners with a delete between them and a failed call last
C1_Witness ==
    /\ Len(history) = 3
    /\ history[1].op = "submitMessage"
    /\ history[2].op = "deleteMessage"
    /\ history[3].op = "submitMessage"
    /\ history[1].caller # history[3].caller
    /\ lastCall.op = "submitMessage" /\ lastCall.status # "ok"

\* C2: the owner indexes partition [0, totalMessages): getUserMessages(o) lists
\* exactly the ids whose record has sender o, each once.
C2_IndexesPartition ==
    \A o \in Addresses :
        LET ix == getUserMessages(o) IN
        /\ {ix[k] : k \in 1..Len(ix)} =
               {id \in 0..(totalMessages - 1) : messages[id].sender = o}
        /\ \A j, k \in 1..Len(ix) : j # k => ix[j] # ix[k]

C2_Witness ==
    /\ \A u \in Users : Len(getUserMessages(u)) > 0
    /\ \E id \in Ids : id < totalMessages /\ ~messages[id].isActive

\* C3: a record's isActive goes from true to false only in a successful
\* deleteMessage of that id by its sender; a deleteMessage of an existing record
\* by anyone else fails with 'Not message owner' and changes nothing.
C3_OnlyOwnerDeactivates ==
    [][ /\ \A id \in Ids :
              messages[id].isActive /\ ~messages'[id].isActive =>
                  lastCall' = [op |-> "deleteMessage", caller |-> messages[id].sender,
                               messageId |-> id, status |-> "ok"]
        /\ ( /\ lastCall'.op = "deleteMessage"
             /\ lastCall'.messageId < totalMessages
             /\ lastCall'.caller # messages[lastCall'.messageId].sender )
           => lastCall'.status = ErrNotOwner /\ UNCHANGED <<ledger, history>>
      ]_vars

\* a non-owner's delete has just failed, on a ledger where an owner has deleted
C3_Witness ==
    /\ lastCall.op = "deleteMessage"
    /\ lastCall.status = ErrNotOwner
    /\ messages[lastCall.messageId].isActive
    /\ DeletedIds # {}

\* C4: each id goes nonexistent -> active -> inactive and nothing else.
Phase(id) ==
    IF ~isMessageActive(id)[1] THEN "nonexistent"
    ELSE IF isMessageActive(id)[2] THEN "active" ELSE "inactive"

C4_Lifecycle ==
    [][ \A id \in Ids :
          LET p == Phase(id)
              q == Phase(id)'
          IN  /\ p = "nonexistent" =>
                    \/ q = "nonexistent"
                    \/ q = "active" /\ lastCall'.op = "submitMessage"
                                    /\ lastCall'.status = "ok"
              /\ p = "active" =>
                    \/ q = "active"
                    \/ q = "inactive" /\ lastCall'.op = "deleteMessage"
                                      /\ lastCall'.status = "ok"
                                      /\ lastCall'.messageId = id
              /\ p = "inactive" => q = "inactive"
      ]_vars

\* a record deleted before a later create, and its owner has tried to delete it again
C4_Witness ==
    /\ Len(history) = 3
    /\ history[2].op = "deleteMessage"
    /\ history[3].op = "submitMessage"
    /\ Phase(history[2].messageId) = "inactive"
    /\ lastCall.op = "deleteMessage" /\ lastCall.messageId = history[2].messageId

\* C5: deleteMessage fails by the first violated of existence, ownership, activity.
C5_DeleteErrorOrder ==
    [][ lastCall'.op = "deleteMessage" =>
          LET id == lastCall'.messageId
              c == lastCall'.caller
              st == lastCall'.status
          IN  /\ id >= totalMessages => st = ErrNotFound
              /\ id < totalMessages /\ messages[id].sender # c => st = ErrNotOwner
              /\ id < totalMessages /\ messages[id].sender = c /\ ~messages[id].isActive
                    => st = ErrAlreadyDeleted
              /\ st = ErrAlreadyDeleted =>
                    id < totalMessages /\ messages[id].sender = c /\ ~messages[id].isActive
      ]_vars

\* a non-owner has tried to delete an already deleted record
C5_Witness ==
    /\ lastCall.op = "deleteMessage"
    /\ lastCall.status = ErrNotOwner
    /\ lastCall.messageId \in DeletedIds

\* C6: once the owner's deleteMessage(id) has succeeded, isMessageActive(id) is
\* (true, false) and getMessage(id) reports isActive = false in every later state,
\* and every later deleteMessage(id) by the owner fails with 'Message already
\* deleted' and changes nothing.
C6_DeleteIsFinal ==
    /\ [](\A id \in DeletedIds :
            /\ isMessageActive(id) = <<TRUE, FALSE>>
            /\ getMessage(id).status = "ok"
            /\ getMessage(id).isActive = FALSE)
    /\ [][ \A id \in DeletedIds :
             ( /\ lastCall'.op = "deleteMessage"
               /\ lastCall'.messageId = id
               /\ lastCall'.caller = messages[id].sender )
             => lastCall'.status = ErrAlreadyDeleted /\ UNCHANGED <<ledger, history>>
         ]_vars

\* the owner's second delete has just failed
C6_Witness ==
    /\ lastCall.op = "deleteMessage"
    /\ lastCall.status = ErrAlreadyDeleted
    /\ lastCall.messageId \in DeletedIds
    /\ lastCall.caller = messages[lastCall.messageId].sender

\* C7: submitMessage with an empty proof fails with 'Input proof cannot be empty'
\* before any library call is made, and changes nothing.
C7_EmptyProofRejected ==
    [][ lastCall'.op = "submitMessage" /\ lastCall'.proofLen = 0 =>
          /\ lastCall'.status = ErrEmptyProof
          /\ lastCall'.auth = << >>
          /\ UNCHANGED <<ledger, history>>
      ]_vars

\* an empty proof has just been rejected on a ledger that holds records
C7_Witness ==
    /\ lastCall.op = "submitMessage"
    /\ lastCall.proofLen = 0
    /\ lastCall.status = ErrEmptyProof
    /\ totalMessages > 0

\* C8: if a library call of submitMessage fails (fromExternal, allowThis or allow),
\* the call fails and the ledger, the grants and the event log are as before.
C8_AuthorityFailureAtomic ==
    [][ lastCall'.op = "submitMessage" /\ lastCall'.proofLen > 0
            /\ lastCall'.fail # "none" =>
          /\ lastCall'.status = ErrAuthority
          /\ UNCHANGED <<ledger, history>>
      ]_vars

\* the second grant, made after the record was written, has just failed
C8_Witness ==
    /\ lastCall.op = "submitMessage"
    /\ lastCall.fail = "allow"
    /\ lastCall.status = ErrAuthority
    /\ totalMessages > 0

\* C9: a successful submitMessage by c with totalMessages = n writes exactly the
\* record n (sender c, active, timestamp now, content from the handle), appends n
\* to c's index, makes the count n + 1, and getMessage(n) returns those fields.
C9_CreateEffect ==
    [][ lastCall'.op = "submitMessage" /\ lastCall'.status = "ok" =>
          \E n \in Ids, c \in Users, h \in Handles :
              LET rec == [encryptedContent |-> fromExternal(h, <<171>>), timestamp |-> now,
                          sender |-> c, isActive |-> TRUE]
              IN  /\ n = totalMessages
                  /\ c = lastCall'.caller
                  /\ h = history'[Len(history')].handle
                  /\ messages[n] = DefaultMessage
                  /\ messages' = [messages EXCEPT ![n] = rec]
                  /\ userMessages' = [userMessages EXCEPT ![c] = Append(@, n)]
                  /\ totalMessages' = n + 1
                  /\ getMessage(n)' = [status |-> "ok"] @@ rec
      ]_vars

\* the second create has just succeeded, with another handle at a later time
C9_Witness ==
    /\ lastCall.op = "submitMessage" /\ lastCall.status = "ok"
    /\ totalMessages = 2
    /\ messages[0].encryptedContent # messages[1].encryptedContent
    /\ messages[0].timestamp # messages[1].timestamp

\* C10: getMessage(id) fails with 'Message does not exist' iff id >= totalMessages;
\* for id < totalMessages it returns the stored fields, deleted or not.
C10_GetMessage ==
    /\ \A id \in Ids :
          LET r == getMessage(id) IN
          /\ r.status = ErrNotFound <=> id >= totalMessages
          /\ id < totalMessages =>
                r = [status |-> "ok",
                     encryptedContent |-> messages[id].encryptedContent,
                     timestamp |-> messages[id].timestamp,
                     sender |-> messages[id].sender,
                     isActive |-> id \notin DeletedIds]
    /\ lastCall.op = "getMessage" =>
          (lastCall.ret.status = "ok" <=> lastCall.messageId < Len(Creates))

\* getMessage has just returned a soft-deleted record
C10_Witness ==
    /\ lastCall.op = "getMessage"
    /\ lastCall.ret.status = "ok"
    /\ ~lastCall.ret.isActive
    /\ getMessage(totalMessages).status = ErrNotFound

\* C11: isMessageActive never fails and agrees with getMessage: (false, false)
\* exactly when getMessage fails with 'Message does not exist', otherwise
\* (true, a) with a the isActive that getMessage returns; never (false, true).
C11_ProbeAgreesWithGet ==
    /\ \A id \in Ids :
          LET r == isMessageActive(id)
              g == getMessage(id)
          IN  /\ r \in BOOLEAN \X BOOLEAN
              /\ r # <<FALSE, TRUE>>
              /\ r = <<FALSE, FALSE>> <=> g.status = ErrNotFound
              /\ g.status = "ok" => r = <<TRUE, g.isActive>>
              /\ r[1] <=> id < Len(Creates)
    /\ lastCall.op = "isMessageActive" =>
          lastCall.ret = <<lastCall.messageId < Len(Creates),
                           /\ lastCall.messageId < Len(Creates)
                           /\ lastCall.messageId \notin DeletedIds>>

\* the probe has just answered (true, false) for a deleted record while another
\* record is active and the next id does not exist
C11_Witness ==
    /\ lastCall.op = "isMessageActive"
    /\ lastCall.ret = <<TRUE, FALSE>>
    /\ \E id \in Ids : isMessageActive(id) = <<TRUE, TRUE>>
    /\ isMessageActive(totalMessages) = <<FALSE, FALSE>>

\* C12: getMessagesBatch is all-or-nothing: it fails with 'Message does not exist'
\* iff some element of ids is >= totalMessages, wherever it stands, and a failed
\* call hands back no row at all.
C12_BatchAllOrNothing ==
    lastCall.op = "getMessagesBatch" =>
        LET ids == lastCall.messageIds
            r == lastCall.ret
        IN  /\ r.status \in {"ok", ErrNotFound}
            /\ r.status = ErrNotFound <=>
                  \E i \in 1..Len(ids) : ids[i] >= getTotalMessages
            /\ r.status = ErrNotFound => DOMAIN r = {"status"}

\* a batch whose last id alone is invalid has just failed
C12_Witness ==
    /\ lastCall.op = "getMessagesBatch"
    /\ Len(lastCall.messageIds) = 2
    /\ lastCall.messageIds[1] < totalMessages
    /\ lastCall.messageIds[2] >= totalMessages
    /\ lastCall.ret = [status |-> ErrNotFound]

\* C13: for ids all < totalMessages (any order, duplicates, empty) the batch
\* succeeds with three sequences as long as ids, row i being the (timestamp,
\* sender, isActive) that getMessage(ids[i]) returns in the same state.
C13_BatchRowsMatchGet ==
    ( /\ lastCall.op = "getMessagesBatch"
      /\ \A i \in 1..Len(lastCall.messageIds) : lastCall.messageIds[i] < totalMessages )
    =>  LET ids == lastCall.messageIds
            r == lastCall.ret
        IN  /\ r.status = "ok"
            /\ DOMAIN r.timestamps = 1..Len(ids)
            /\ DOMAIN r.senders = 1..Len(ids)
            /\ DOMAIN r.activeStatuses = 1..Len(ids)
            /\ \A i \in 1..Len(ids) :
                  /\ r.timestamps[i] = getMessage(ids[i]).timestamp
                  /\ r.senders[i] = getMessage(ids[i]).sender
                  /\ r.activeStatuses[i] = getMessage(ids[i]).isActive
            /\ \A i, j \in 1..Len(ids) :
                  ids[i] = ids[j] =>
                      /\ r.timestamps[i] = r.timestamps[j]
                      /\ r.senders[i] = r.senders[j]
                      /\ r.activeStatuses[i] = r.activeStatuses[j]

\* a batch in descending id order over two different records has just succeeded
C13_Witness ==
    /\ lastCall.op = "getMessagesBatch"
    /\ lastCall.ret.status = "ok"
    /\ Len(lastCall.messageIds) = 2
    /\ lastCall.messageIds[1] > lastCall.messageIds[2]
    /\ lastCall.ret.senders[1] # lastCall.ret.senders[2]
    /\ lastCall.ret.activeStatuses[1] # lastCall.ret.activeStatuses[2]

\* C14: getUserMessageMetadata(owner) returns three sequences as long as
\* getUserMessages(owner), row i being getMessage(getUserMessages(owner)[i])
\* projected to (timestamp, id, isActive); deleted records are included.
C14_MetadataMatchesGet ==
    /\ \A o \in Addresses :
          LET m == getUserMessageMetadata(o)
              ix == getUserMessages(o)
          IN  /\ DOMAIN m.timestamps = 1..Len(ix)
              /\ DOMAIN m.messageIds = 1..Len(ix)
              /\ DOMAIN m.activeStatus = 1..Len(ix)
              /\ \A i \in 1..Len(ix) :
                    /\ getMessage(ix[i]).status = "ok"
                    /\ m.timestamps[i] = getMessage(ix[i]).timestamp
                    /\ m.messageIds[i] = ix[i]
                    /\ m.activeStatus[i] = getMessage(ix[i]).isActive
    /\ lastCall.op = "getUserMessageMetadata" =>
          /\ Len(lastCall.ret.messageIds) = Len(getUserMessages(lastCall.user))
          /\ \A i \in 1..Len(lastCall.ret.messageIds) :
                lastCall.ret.activeStatus[i] = (lastCall.ret.messageIds[i] \notin DeletedIds)

\* the metadata of an owner of two records, the later one deleted, has just been read
C14_Witness ==
    /\ lastCall.op = "getUserMessageMetadata"
    /\ Len(lastCall.ret.messageIds) = 2
    /\ lastCall.ret.activeStatus = <<TRUE, FALSE>>
    /\ lastCall.ret.timestamps[1] # lastCall.ret.timestamps[2]

\* C15: getMessageCount(owner) never fails and equals the length of
\* getUserMessages(owner), the number of successful creates by that owner,
\* deleted ones included; 0 and the empty sequence for one who never created.
C15_CountIsIndexLength ==
    /\ \A o \in Addresses :
          LET created == {i \in 1..Len(Creates) : Creates[i].caller = o} IN
          /\ getMessageCount(o) \in Nat
          /\ getMessageCount(o) = Len(getUserMessages(o))
          /\ getMessageCount(o) = Cardinality(created)
          /\ created = {} => getMessageCount(o) = 0 /\ getUserMessages(o) = << >>
    /\ lastCall.op = "getMessageCount" =>
          lastCall.ret = Len(getUserMessages(lastCall.user))

\* the count of an owner of two records, one of them deleted, has just been read,
\* and the other user has none
C15_Witness ==
    /\ lastCall.op = "getMessageCount"
    /\ lastCall.ret = 2
    /\ \E id \in DeletedIds : messages[id].sender = lastCall.user
    /\ \E u \in Users : getMessageCount(u) = 0

\* C16: a successful deleteMessage(id) changes only record id's isActive: its
\* content, timestamp and sender, every other record, every owner index (id stays
\* listed where it was) and totalMessages are unchanged.
C16_DeleteFrame ==
    [][ lastCall'.op = "deleteMessage" /\ lastCall'.status = "ok" =>
          \E id \in Ids :
              /\ id = lastCall'.messageId
              /\ messages[id].isActive
              /\ messages' = [messages EXCEPT ![id].isActive = FALSE]
              /\ messages'[id].encryptedContent \in Handles
              /\ userMessages' = userMessages
              /\ \E k \in 1..Len(userMessages'[messages[id].sender]) :
                    userMessages'[messages[id].sender][k] = id
              /\ totalMessages' = totalMessages
              /\ grants' = grants
      ]_vars

\* the first of an owner's two records has just been deleted
C16_Witness ==
    /\ lastCall.op = "deleteMessage" /\ lastCall.status = "ok"
    /\ lastCall.messageId = 0
    /\ getUserMessages(lastCall.caller) = <<0, 1>>
    /\ messages[0].encryptedContent # messages[1].encryptedContent

\* C17: once a record exists its sender, timestamp and content handle never
\* change: later creates do not overwrite it and delete touches only isActive.
C17_RecordImmutable ==
    [][ \A id \in Ids :
          id < totalMessages =>
              /\ messages'[id].sender = messages[id].sender
              /\ messages'[id].timestamp = messages[id].timestamp
              /\ messages'[id].encryptedContent = messages[id].encryptedContent
      ]_vars

\* record 0 was deleted and then another owner created record 1 with another
\* handle at a later time
C17_Witness ==
    /\ totalMessages = 2
    /\ Len(history) = 3
    /\ history[2].op = "deleteMessage" /\ history[2].messageId = 0
    /\ history[3].op = "submitMessage"
    /\ history[3].caller # history[1].caller
    /\ history[3].handle # history[1].handle
    /\ history[3].time # history[1].time
    /\ messages[0].sender = history[1].caller

\* C18: getTotalMessages never decreases and changes only in a successful
\* submitMessage, by exactly 1; deletes, failed submits and reads leave it alone.
C18_CountFrame ==
    [][ /\ getTotalMessages' >= getTotalMessages
        /\ IF lastCall'.op = "submitMessage" /\ lastCall'.status = "ok"
           THEN getTotalMessages' = getTotalMessages + 1
           ELSE getTotalMessages' = getTotalMessages
      ]_vars

\* a delete has just succeeded on a ledger of two records
C18_Witness ==
    /\ lastCall.op = "deleteMessage" /\ lastCall.status = "ok"
    /\ getTotalMessages = 2
    /\ Cardinality(DeletedIds) = 2

\* C19: each owner's index is append-only and in creation order: across every
\* step the old index is a prefix of the new one, and the ids of an index are
\* strictly increasing.
IsPrefix(s, t) == Len(s) <= Len(t) /\ \A i \in 1..Len(s) : s[i] = t[i]

C19_IndexAppendOnly ==
    /\ [](\A o \in Addresses :
            \A i, j \in 1..Len(getUserMessages(o)) :
                i < j => getUserMessages(o)[i] < getUserMessages(o)[j])
    /\ [][ \A o \in Addresses : IsPrefix(userMessages[o], userMessages'[o]) ]_vars

\* an owner's index holds two ids, the first of them deleted
C19_Witness ==
    \E u \in Users :
        /\ Len(getUserMessages(u)) = 2
        /\ getUserMessages(u)[1] \in DeletedIds
        /\ getUserMessages(u)[2] \notin DeletedIds

\* C20: every read (getMessage, getUserMessages, getMessageCount,
\* getUserMessageMetadata, getTotalMessages, getMessagesBatch, isMessageActive),
\* succeeding or failing, leaves totalMessages, records, indexes, grants and the
\* event log unchanged, and what it returns is what the function gives on the
\* state committed by the successful mutating calls before it.
ReadOps ==
    {"getMessage", "getUserMessages", "getMessageCount", "getUserMessageMetadata",
     "getTotalMessages", "getMessagesBatch", "isMessageActive"}

\* the storage that the successful mutating calls h, applied in order, commit
RECURSIVE Committed(_)
Committed(h) ==
    IF h = << >>
    THEN [total |-> 0, msgs |-> [id \in Ids |-> DefaultMessage],
          idx |-> [a \in Addresses |-> << >>]]
    ELSE LET S == Committed(SubSeq(h, 1, Len(h) - 1))
             e == h[Len(h)]
         IN  IF e.op = "submitMessage"
             THEN [total |-> S.total + 1,
                   msgs |-> [S.msgs EXCEPT ![S.total] =
                                [encryptedContent |-> e.handle, timestamp |-> e.time,
                                 sender |-> e.caller, isActive |-> TRUE]],
                   idx |-> [S.idx EXCEPT ![e.caller] = Append(@, S.total)]]
             ELSE [S EXCEPT !.msgs[e.messageId].isActive = FALSE]

ReadResult(call) ==
    CASE call.op = "getMessage" -> getMessage(call.messageId)
      [] call.op = "getUserMessages" -> getUserMessages(call.user)
      [] call.op = "getMessageCount" -> getMessageCount(call.user)
      [] call.op = "getUserMessageMetadata" -> getUserMessageMetadata(call.user)
      [] call.op = "getTotalMessages" -> getTotalMessages
      [] call.op = "getMessagesBatch" -> getMessagesBatch(call.messageIds)
      [] call.op = "isMessageActive" -> isMessageActive(call.messageId)

C20_ReadsArePure ==
    /\ []([total |-> totalMessages, msgs |-> messages, idx |-> userMessages]
              = Committed(history))
    /\ [][ lastCall'.op \in ReadOps =>
             /\ UNCHANGED <<ledger, now, history>>
             /\ lastCall'.ret = ReadResult(lastCall')
         ]_vars

\* a batch read has just failed on a ledger of two records, one deleted, after a
\* block has passed
C20_Witness ==
    /\ lastCall.op = "getMessagesBatch"
    /\ lastCall.ret.status = ErrNotFound
    /\ totalMessages = 2
    /\ DeletedIds # {}
    /\ now = 2

\* the positions of the event log that hold an event of the given name
EventsNamed(name) == {k \in 1..Len(events) : events[k].name = name}

SubmittedEvents == SelectSeq(events, LAMBDA e : e.name = "MessageSubmitted")

\* C21: the creation events mirror the records one to one: there are exactly
\* totalMessages MessageSubmitted events, the k-th (0-indexed) carries messageId k
\* and the sender and timestamp stored in record k; a successful submitMessage
\* appends exactly that one event to the log and a failed one appends nothing.
C21_CreationEventsMirrorRecords ==
    /\ [](/\ Len(SubmittedEvents) = totalMessages
          /\ \A k \in 1..Len(SubmittedEvents) :
                /\ SubmittedEvents[k].messageId = k - 1
                /\ SubmittedEvents[k].sender = messages[k - 1].sender
                /\ SubmittedEvents[k].timestamp = messages[k - 1].timestamp)
    /\ [][ lastCall'.op = "submitMessage" =>
             IF lastCall'.status = "ok"
             THEN \E n \in Ids :
                    /\ n = totalMessages
                    /\ events' = Append(events,
                                    [name |-> "MessageSubmitted", sender |-> lastCall'.caller,
                                     messageId |-> n, timestamp |-> now])
                    /\ messages'[n].sender = lastCall'.caller
                    /\ messages'[n].timestamp = now
             ELSE events' = events
         ]_vars

\* two creates by different callers in different blocks, a delete between them,
\* and a failed create last
C21_Witness ==
    /\ Len(SubmittedEvents) = 2
    /\ SubmittedEvents[1].sender # SubmittedEvents[2].sender
    /\ SubmittedEvents[1].timestamp < SubmittedEvents[2].timestamp
    /\ Len(events) = 3 /\ events[2].name = "MessageDeleted"
    /\ lastCall.op = "submitMessage" /\ lastCall.status = ErrAuthority

\* C22: a successful deleteMessage(id) appends exactly one MessageDeleted(caller, id),
\* the caller being the record's sender, and a failed one appends nothing; the log
\* holds at most one MessageDeleted per id, after the MessageSubmitted of that id,
\* and a record is inactive exactly when a MessageDeleted for its id is in the log.
C22_DeletionEvents ==
    /\ [](/\ \A id \in Ids :
                Cardinality({k \in EventsNamed("MessageDeleted") :
                                events[k].messageId = id}) <= 1
          /\ \A k \in EventsNamed("MessageDeleted") :
                /\ events[k].sender = messages[events[k].messageId].sender
                /\ \E j \in EventsNamed("MessageSubmitted") :
                      j < k /\ events[j].messageId = events[k].messageId
          /\ \A id \in 0..(totalMessages - 1) :
                ~messages[id].isActive <=>
                    \E k \in EventsNamed("MessageDeleted") : events[k].messageId = id)
    /\ [][ lastCall'.op = "deleteMessage" =>
             IF lastCall'.status = "ok"
             THEN /\ events' = Append(events,
                                   [name |-> "MessageDeleted", sender |-> lastCall'.caller,
                                    messageId |-> lastCall'.messageId])
                  /\ lastCall'.caller = messages[lastCall'.messageId].sender
             ELSE events' = events
         ]_vars

\* both records deleted, the second one first, and a repeated delete just refused
C22_Witness ==
    /\ Len(events) = 4
    /\ events[3].name = "MessageDeleted" /\ events[3].messageId = 1
    /\ events[4].name = "MessageDeleted" /\ events[4].messageId = 0
    /\ lastCall.op = "deleteMessage" /\ lastCall.status = ErrAlreadyDeleted

\* C23: decryption capability is granted only at creation and only to the contract
\* and the submitting caller: a successful submitMessage calls allowThis and allow
\* once each, adding the grants <<content, contract>> and <<content, caller>> on the
\* ciphertext it stored and no other; every other step (a failed create, a delete,
\* a read) leaves the grants as they are, so every grant in the ACL is on the
\* content of a record and held by the contract or by that record's sender, and a
\* deleted record's sender keeps the grant.
C23_GrantsOnlyAtCreation ==
    /\ [](grants = UNION {{<<messages[id].encryptedContent, ThisContract>>,
                           <<messages[id].encryptedContent, messages[id].sender>>} :
                              id \in 0..(totalMessages - 1)})
    /\ [][ IF lastCall'.op = "submitMessage" /\ lastCall'.status = "ok"
           THEN \E n \in Ids :
                  /\ n = totalMessages
                  /\ lastCall'.auth = <<"fromExternal", "allowThis", "allow">>
                  /\ grants' = grants \cup
                        {<<messages'[n].encryptedContent, ThisContract>>,
                         <<messages'[n].encryptedContent, lastCall'.caller>>}
           ELSE grants' = grants
         ]_vars

\* the only record has been deleted, its sender still holds the grant, and a
\* create by the other caller has just failed in FHE.allow, after FHE.allowThis
C23_Witness ==
    /\ totalMessages = 1
    /\ ~messages[0].isActive
    /\ grants = {<<messages[0].encryptedContent, ThisContract>>,
                 <<messages[0].encryptedContent, messages[0].sender>>}
    /\ lastCall.op = "submitMessage" /\ lastCall.fail = "allow"
    /\ lastCall.caller # messages[0].sender
    /\ lastCall.auth = <<"fromExternal", "allowThis", "allow">>

\* the records a successful record-reading call reports, in the order of its rows
RowsReported(call) ==
    CASE call.op = "getMessage" ->
             IF call.ret.status = "ok" THEN <<call.messageId>> ELSE << >>
      [] call.op = "getMessagesBatch" ->
             IF call.ret.status = "ok" THEN call.messageIds ELSE << >>
      [] call.op = "getUserMessageMetadata" -> call.ret.messageIds
      [] OTHER -> << >>

\* the unsigned-integer values the return value of such a call holds for row i:
\* the only components in which a euint32 handle could travel
RowIntegers(call, i) ==
    CASE call.op = "getMessage" -> {call.ret.encryptedContent, call.ret.timestamp}
      [] call.op = "getMessagesBatch" -> {call.ret.timestamps[i]}
      [] call.op = "getUserMessageMetadata" ->
             {call.ret.timestamps[i], call.ret.messageIds[i]}

\* C24 as stated: getMessage, getMessagesBatch and getUserMessageMetadata all
\* return the stored content handle of every record they report.
C24_AllPathsReturnHandle ==
    \A i \in 1..Len(RowsReported(lastCall)) :
        messages[RowsReported(lastCall)[i]].encryptedContent \in RowIntegers(lastCall, i)

\* C24, amended: the contract supplies the content handle of a record through
\* getMessage only; getMessagesBatch returns (timestamps, senders, activeStatuses)
\* and getUserMessageMetadata returns (timestamps, messageIds, activeStatus), and
\* no row of either holds the record's handle.
C24_OnlyGetMessageReturnsHandle ==
    /\ lastCall.op = "getMessage" /\ lastCall.ret.status = "ok" =>
          /\ lastCall.ret.encryptedContent = messages[lastCall.messageId].encryptedContent
          /\ lastCall.ret.encryptedContent \in Handles
    /\ lastCall.op = "getMessagesBatch" /\ lastCall.ret.status = "ok" =>
          DOMAIN lastCall.ret = {"status", "timestamps", "senders", "activeStatuses"}
    /\ lastCall.op = "getUserMessageMetadata" =>
          DOMAIN lastCall.ret = {"timestamps", "messageIds", "activeStatus"}
    /\ lastCall.op \in {"getMessagesBatch", "getUserMessageMetadata"} =>
          \A i \in 1..Len(RowsReported(lastCall)) :
              messages[RowsReported(lastCall)[i]].encryptedContent
                  \notin RowIntegers(lastCall, i)

\* getMessage has just returned the handle of a deleted record
C24_Witness ==
    /\ lastCall.op = "getMessage" /\ lastCall.ret.status = "ok"
    /\ lastCall.ret.encryptedContent \in Handles
    /\ ~lastCall.ret.isActive
    /\ totalMessages = 2

\* C25: the records occupy exactly the ids [0, totalMessages): every id below
\* totalMessages holds the record a create wrote (its sender is that create's
\* caller, never the zero address), every id from totalMessages on holds the
\* default value (zero sender, isActive false), and getMessage and isMessageActive
\* accept an id exactly when it is below totalMessages.
C25_DenseIds ==
    \A id \in Ids :
        /\ id < totalMessages =>
              /\ messages[id].sender \in Users
              /\ messages[id].sender = Creates[id + 1].caller
        /\ id >= totalMessages => messages[id] = DefaultMessage
        /\ (messages[id].sender # ZeroAddress) <=> (id < totalMessages)
        /\ (getMessage(id).status = "ok") <=> (messages[id].sender # ZeroAddress)
        /\ isMessageActive(id)[1] <=> (messages[id].sender # ZeroAddress)

\* one record stored and deleted: ids 0 and 1 are on either side of the bound and
\* both are inactive, the first as a deleted record and the second as no record
C25_Witness ==
    /\ totalMessages = 1
    /\ ~messages[0].isActive /\ messages[0].sender \in Users
    /\ ~messages[1].isActive /\ messages[1] = DefaultMessage
    /\ lastCall.op = "getMessage" /\ lastCall.messageId = 1
    /\ lastCall.ret.status = ErrNotFound

\* C26: with a block clock that never goes backwards, record timestamps are
\* non-decreasing in id; two records may carry the same timestamp.
C26_TimestampsMonotone ==
    \A i, j \in 0..(totalMessages - 1) :
        i < j => messages[i].timestamp <= messages[j].timestamp

\* two records created in the same block, in a later block than the deployment
C26_Witness ==
    /\ totalMessages = 2
    /\ messages[0].timestamp = messages[1].timestamp
    /\ messages[0].timestamp = 2

\* C28: ids are stable references: every id getUserMessages returns and every id
\* isMessageActive reports as existing is accepted by getMessage, and an id that
\* getMessage accepts is accepted in every later state, whatever creates and
\* deletes follow; so reading the ids first and the records later, in separate
\* calls, never meets "Message does not exist".
C28_IdsStable ==
    /\ [](/\ \A a \in Addresses :
                \A i \in 1..Len(getUserMessages(a)) :
                    getMessage(getUserMessages(a)[i]).status = "ok"
          /\ \A id \in Ids :
                isMessageActive(id)[1] => getMessage(id).status = "ok")
    /\ [][ \A id \in Ids :
              getMessage(id).status = "ok" => getMessage(id)'.status = "ok"
         ]_vars

\* getMessage has just returned record 0 of a caller's index after that caller
\* deleted it and the other caller created and deleted record 1
C28_Witness ==
    /\ lastCall.op = "getMessage" /\ lastCall.messageId = 0
    /\ lastCall.ret.status = "ok" /\ ~lastCall.ret.isActive
    /\ Len(history) = 4
    /\ history[2].op = "deleteMessage" /\ history[2].messageId = 0
    /\ history[3].op = "submitMessage" /\ history[3].caller # history[1].caller
    /\ history[4].op = "deleteMessage" /\ history[4].messageId = 1

\* C27: on each of the two supported networks, the local Hardhat network (chain
\* 31337) and the Sepolia testnet (chain 11155111), the client resolves a
\* NeonCrypt contract address, so that the page has a contract to load messages
\* from and the input of a connected user is enabled.
C27_BothNetworksResolve ==
    chainId \in {HardhatId, SepoliaId} =>
        /\ ~getNeonCryptAddress(chainId).threw
        /\ contractAddress(chainId) # Undefined
        /\ isConnected(address) => ~disabled(Snapshot)

C30_TextClearedOnlyAfterSuccess ==
    [][ lastCall'.op = "onSendSettled" =>
          /\ isSending' = FALSE
          /\ ~lastCall'.submitted => message' = message
      ]_vars


\* -------------------------------------------------------------- Home: steps
\* the most runs of the load effect followed
MaxLoads == 2

\* the test of the network effect
NetworkChanged_NoCompare(c, previous) == c # NoChainId /\ previous # NoChainId

NetworkChanged(c, previous) == c # NoChainId /\ previous # NoChainId /\ c # previous

\* the query of the user's ids delivers data, or has none for its present key
QueryData ==
    /\ \E u \in {NoData} \cup {Data(ids) : ids \in IdLists} :
           u # userMessageIds /\ userMessageIds' = u
    /\ lastCall' = NoCall
    /\ UNCHANGED <<ledger, now, history, wallet, chatInput, fhevm, previousChainId,
                   pageMessages, networkDeps, loadDeps, loads, loadCount, shownRun,
                   seenChainId>>

\* Home renders and the effects whose dependencies changed run, in the order they
\* are declared: the network effect (lines 44-54), then the load effect (lines
\* 74-123) up to the first await of loadMessages. A state set by an effect is
\* what the next render gets.
HomeRender ==
    LET c == chainId
        netDeps == <<c, previousChainId>>
        netRuns == networkDeps # netDeps
        changed == netRuns /\ NetworkChanged(c, previousChainId)
        ldDeps == <<userMessageIds, contractAddress(c), address>>
        ldRuns == loadDeps # ldDeps
        missing == \/ userMessageIds = NoData
                   \/ contractAddress(c) = Undefined
                   \/ address = NoAccount
        \* setMessages([]) of line 76, or loadMessages over no ids, which awaits nothing
        sync == ldRuns /\ (missing \/ userMessageIds.ids = << >>)
        async == ldRuns /\ ~sync
    IN  /\ netRuns \/ ldRuns
        /\ ldRuns => loadCount < MaxLoads
        /\ seenChainId' = c
        /\ networkDeps' = netDeps
        /\ previousChainId' = IF netRuns THEN c ELSE previousChainId
        /\ IF changed THEN clearFhevmCache ELSE UNCHANGED <<caches, calls, isInitialized>>
        /\ loadDeps' = ldDeps
        /\ loadCount' = IF ldRuns THEN loadCount + 1 ELSE loadCount
        /\ loads' = IF async
                    THEN loads \cup {[run |-> loadCount + 1, ids |-> userMessageIds.ids]}
                    ELSE loads
        /\ pageMessages' = IF sync \/ changed THEN << >> ELSE pageMessages
        /\ shownRun' = IF sync THEN loadCount + 1 ELSE shownRun
        /\ lastCall' = [op |-> "render", cleared |-> changed]
        /\ UNCHANGED <<ledger, now, history, wallet, chatInput, userMessageIds>>

\* a loadMessages run has read its last message: setMessages(loadedMessages), or
\* the catch that only logs
loadMessagesSettles(r, ok) ==
    /\ r \in loads
    /\ loads' = loads \ {r}
    /\ IF ok
       THEN pageMessages' = r.ids /\ shownRun' = r.run
       ELSE UNCHANGED <<pageMessages, shownRun>>
    /\ lastCall' = [op |-> "loadMessages", run |-> r.run, ok |-> ok]
    /\ UNCHANGED <<ledger, now, history, wallet, chatInput, fhevm, previousChainId,
                   userMessageIds, networkDeps, loadDeps, loadCount, seenChainId>>

LoadSettles == \E r \in loads, ok \in BOOLEAN : loadMessagesSettles(r, ok)

\* a getFhevmInstance call for the connected account that nothing interleaves
\* with, from its first await to its return: on the local network the mock
\* instance, the metadata and the two domains are cached, elsewhere the instance
InstanceServed ==
    /\ address # NoAccount /\ calls = EmptyBag
    /\ IF isLocalNetwork(chainId)
       THEN /\ ~(mockFhevmInstance # Null /\ cachedUserAddress = address)
            /\ mockFhevmInstance' = Instance(address, FALSE)
            /\ cachedUserAddress' = address
            /\ cachedMetadata' = Fetched(FALSE)
            /\ cachedInputVerifierEip712Domain' = Fetched(FALSE)
            /\ cachedKmsVerifierEip712Domain' = Fetched(FALSE)
            /\ UNCHANGED <<fhevmInstance, isInitialized>>
       ELSE /\ fhevmInstance = Null
            /\ fhevmInstance' = Instance(address, FALSE)
            /\ isInitialized' = TRUE
            /\ UNCHANGED <<mockFhevmInstance, cachedUserAddress, cachedMetadata,
                           cachedInputVerifierEip712Domain, cachedKmsVerifierEip712Domain>>
    /\ lastCall' = [op |-> "getFhevmInstance"]
    /\ UNCHANGED <<notFhevm, chainId, calls>>

\* the page while accounts, networks and query data change and the library serves
\* calls
NextPage ==
    \/ Connect
    \/ Disconnect
    \/ SwitchNetwork
    \/ QueryData
    \/ HomeRender
    \/ LoadSettles
    \/ InstanceServed

SpecPage == Init /\ [][NextPage]_vars


\* --------------------------------------------------- lib/fhevm: conversions
\* String.prototype.charCodeAt for the characters of the strings below
CharCodes ==
    (" " :> 32) @@
    ("0" :> 48) @@
    ("1" :> 49) @@
    ("2" :> 50) @@
    ("3" :> 51) @@
    ("4" :> 52) @@
    ("5" :> 53) @@
    ("6" :> 54) @@
    ("7" :> 55) @@
    ("8" :> 56) @@
    ("9" :> 57) @@
    ("G" :> 71) @@
    ("Z" :> 90) @@
    ("_" :> 95) @@
    ("a" :> 97) @@
    ("d" :> 100) @@
    ("y" :> 121) @@
    ("z" :> 122)

\* the longest of the strings made of every combination of ShortChars
MaxLen == 3

ShortChars == {" ", "0", "4", "9", "z"}

RECURSIVE StringsOfLength(_)
StringsOfLength(n) ==
    IF n = 0 THEN {<< >>}
    ELSE {Append(s, c) : s \in StringsOfLength(n - 1), c \in ShortChars}

\* longer strings, each with the number a JavaScript engine returns for it, as
\* <<string, value \div 2^16, value % 2^16>>: the ends of the uint32 range, with
\* blanks and a leading zero, a number too large for 32 bits, a string whose hash
\* wraps to -2147483648, strings whose hash wraps to a negative and to a positive
\* number, and digits mixed with a letter
KnownStrings ==
    {<<<<"4", "2", "9", "4", "9", "6", "7", "2", "9", "5">>,
       65535, 65535>>,
     <<<<"4", "2", "9", "4", "9", "6", "7", "2", "9", "6">>,
       10105, 23762>>,
     <<<<" ", "4", "2", "9", "4", "9", "6", "7", "2", "9", "5", " ">>,
       65535, 65535>>,
     <<<<"0", "4", "2", "9", "4", "9", "6", "7", "2", "9", "5">>,
       65535, 65535>>,
     <<<<"G", "y", "d", "Z", "G", "_">>,
       32768, 0>>,
     <<<<"z", "z", "z", "z", "z", "z">>,
       10464, 16960>>,
     <<<<"z", "z", "z", "z", "z", "z", "z">>,
       3287, 64186>>,
     <<<<"1", "2", "a", "4">>,
       23, 3540>>}

Strings ==
    UNION {StringsOfLength(n) : n \in 0..MaxLen} \cup {k[1] : k \in KnownStrings}

Digits == {"0", "1", "2", "3", "4", "5", "6", "7", "8", "9"}

\* /^\d+$/.test(s)
AllDigits(s) == s # << >> /\ \A i \in 1..Len(s) : s[i] \in Digits

\* parseInt(s, 10) of a string of digits; a number above 4294967295 is kept as
\* hi = 2^16, which says no more than that it is above
TimesTenPlus(n, digit) ==
    LET lo == n.lo * 10 + digit
        hi == n.hi * 10 + lo \div Limb
    IN  Num(FALSE, IF hi >= Limb THEN Limb ELSE hi, lo % Limb)

\* the digits of s from the i-th on, appended to the number n; a number that is
\* above 4294967295 stays so whatever follows
RECURSIVE DecimalFrom(_, _, _)
DecimalFrom(s, i, n) ==
    IF i > Len(s) \/ n.hi >= Limb THEN n
    ELSE DecimalFrom(s, i + 1, TimesTenPlus(n, CharCodes[s[i]] - CharCodes["0"]))

parseInt10(s) == DecimalFrom(s, 1, NumZero)

\* 32-bit integers in two's complement, as [hi, lo] with both below 2^16
Int32(hi, lo) == [hi |-> hi % Limb, lo |-> lo % Limb]

IsNegative(h) == 2 * h.hi >= Limb

\* hash = (hash << 5) - hash + char; hash = hash & hash: the shift, the
\* subtraction and the addition limb by limb, wrapped to 32 bits
HashStep(hash, char) ==
    LET shiftedLo == (hash.lo * 32) % Limb
        shiftedHi == (hash.hi * 32 + (hash.lo * 32) \div Limb) % Limb
        lo == shiftedLo + Limb - hash.lo + char
        hi == shiftedHi + Limb - hash.hi + lo \div Limb - 1
    IN  Int32(hi, lo)

\* the loop of stringToUint32 from its i-th round on; hash is a 32-bit integer
\* at the start of every round
RECURSIVE HashFrom(_, _, _)
HashFrom(str, i, hash) ==
    IF i > Len(str) \/ hash.hi >= Limb THEN hash
    ELSE HashFrom(str, i + 1, HashStep(hash, CharCodes[str[i]]))

HashOf(str) == HashFrom(str, 1, Int32(0, 0))

\* Math.abs(hash) >>> 0
AbsUint32(h) ==
    IF IsNegative(h)
    THEN Num(FALSE, (2 * Limb - h.hi - (IF h.lo = 0 THEN 0 ELSE 1)) % Limb,
             (Limb - h.lo) % Limb)
    ELSE Num(FALSE, h.hi, h.lo)

stringToUint32_NoAbs(str) ==
    LET trimmed == trim(str)
        num == parseInt10(trimmed)
    IN  IF AllDigits(trimmed) /\ ~NumLess(num, NumZero) /\ ~NumLess(UINT32_MAX, num)
        THEN num
        ELSE Num(FALSE, HashOf(str).hi, HashOf(str).lo)

stringToUint32(str) ==
    LET trimmed == trim(str)
        num == parseInt10(trimmed)
    IN  IF AllDigits(trimmed) /\ ~NumLess(num, NumZero) /\ ~NumLess(UINT32_MAX, num)
        THEN num
        ELSE AbsUint32(HashOf(str))

\* handles as handle.toString(16) gives them, digit by digit, each with the
\* number a JavaScript engine computes as parseInt(hex.slice(-8), 16) % 1000000
KnownHandles ==
    {<<<<0>>, 0>>,
     <<<<15, 15>>, 255>>,
     <<<<15, 4, 2, 4, 0>>, 0>>,
     <<<<13, 14, 10, 13, 11, 14, 14, 15>>, 928559>>,
     <<<<15, 15, 15, 15, 15, 15, 15, 15>>, 967295>>,
     <<<<1, 0, 0, 0, 0, 0, 0, 0, 0>>, 0>>,
     <<<<1, 15, 15, 15, 15, 15, 15, 15, 15>>, 967295>>,
     <<<<10, 0, 0, 0, 0, 0, 0, 0, 0, 0, 0, 0, 0, 0, 0, 0, 0, 0, 0, 0, 0, 0, 0, 0, 0, 0, 0, 0, 0, 0, 0, 0, 0, 0, 0, 0, 0, 0, 0, 0, 0, 0, 0, 0, 0, 0, 0, 0, 0, 0, 0, 0, 0, 0, 0, 0, 0, 0, 1, 2, 13, 6, 8, 7>>, 234567>>}

HandleHexes == {k[1] : k \in KnownHandles}

\* handleHex.slice(-8)
SliceLast8(hex) == IF Len(hex) > 8 THEN SubSeq(hex, Len(hex) - 7, Len(hex)) ELSE hex

\* parseInt(s, 16) of at most eight hexadecimal digits
TimesSixteenPlus(n, digit) ==
    Num(FALSE, n.hi * 16 + (n.lo * 16 + digit) \div Limb, (n.lo * 16 + digit) % Limb)

\* the hexadecimal digits of s from the i-th on, appended to the number n
RECURSIVE HexFrom(_, _, _)
HexFrom(s, i, n) ==
    IF i > Len(s) \/ n.hi >= Limb THEN n
    ELSE HexFrom(s, i + 1, TimesSixteenPlus(n, s[i]))

parseInt16(s) == HexFrom(s, 1, NumZero)

MockModulus == 1000000

\* n % 1000000, with 2^16 taken as 256 * 256 to stay within 32 bits
Mod1000000(n) ==
    (((((n.hi * 256) % MockModulus) * 256) % MockModulus) + n.lo) % MockModulus

\* the value the catch of the mock decryption computes from the handle
FallbackValue_FirstDigits(hex) ==
    LET v == Mod1000000(parseInt16(IF Len(hex) > 8 THEN SubSeq(hex, 1, 8) ELSE hex)) IN Num(FALSE, v \div Limb, v % Limb)

FallbackValue(hex) ==
    LET v == Mod1000000(parseInt16(SliceLast8(hex))) IN Num(FALSE, v \div Limb, v % Limb)

\* where a decryptUint32 call fails, if anywhere: reading the chain id, getting
\* the instance, generateKeypair, createEIP712, getSigner, signTypedData, or
\* the userDecrypt / reencrypt request
DecryptFailures ==
    {"none", "getChainId", "instance", "generateKeypair", "createEIP712", "getSigner",
     "signTypedData", "decrypt"}

\* the values a decryption that succeeds delivers
Plaintexts == {NumZero, Num(FALSE, 0, 42), UINT32_MAX}

Threw == [threw |-> TRUE]
Returned(value) == [threw |-> FALSE, value |-> value]

\* decryptUint32 on the chain the provider reports, with its first failure
decryptUint32(chain, hex, failure, plain) ==
    IF failure = "getChainId" THEN Threw
    ELSE IF isLocalNetwork(chain)
    THEN IF failure = "instance" THEN Threw
         ELSE IF failure = "none" THEN Returned(plain)
         ELSE Returned(FallbackValue(hex))
    ELSE IF failure = "none" THEN Returned(plain) ELSE Threw

StringToUint32 ==
    /\ \E str \in Strings :
           lastCall' = [op |-> "stringToUint32", str |-> str, ret |-> stringToUint32(str)]
    /\ UNCHANGED <<ledger, now, history, client>>

DecryptUint32 ==
    /\ \E chain \in ChainIds, hex \in HandleHexes, failure \in DecryptFailures,
          plain \in Plaintexts :
           lastCall' = [op |-> "decryptUint32", chain |-> chain, handle |-> hex,
                        failure |-> failure,
                        ret |-> decryptUint32(chain, hex, failure, plain)]
    /\ UNCHANGED <<ledger, now, history, client>>

\* the conversions of lib/fhevm applied to every input above
NextConv ==
    \/ StringToUint32
    \/ DecryptUint32

SpecConv == Init /\ [][NextConv]_vars


\* ------------------------------------------------------ lib/fhevm: properties
IsStale(x) == x # Null /\ x.stale

Running(pc) == {c \in BagToSet(calls) : c.pc = pc}

\* C33: after clearFhevmCache no call hands back, and no cache holds, an instance,
\* metadata or EIP-712 domain whose creation or fetch began before that clear,
\* even when it was being awaited at the moment of the clear.
C33_NothingFromBeforeClear ==
    /\ lastCall.op = "returned" => ~IsStale(lastCall.ret)
    /\ ~IsStale(fhevmInstance)
    /\ ~IsStale(mockFhevmInstance)
    /\ ~IsStale(cachedMetadata)
    /\ ~IsStale(cachedInputVerifierEip712Domain)
    /\ ~IsStale(cachedKmsVerifierEip712Domain)

\* C34: a cached mock instance was created for cachedUserAddress, and a call gets
\* a mock instance it did not create only when it asked for cachedUserAddress.
C34_MockCacheKeyedByUser ==
    /\ [](mockFhevmInstance # Null => mockFhevmInstance.user = cachedUserAddress)
    /\ [][(/\ lastCall'.op = "returned"
            /\ ~lastCall'.created
            /\ lastCall'.ret # Null
            /\ isLocalNetwork(chainId))
            => /\ lastCall'.ret = mockFhevmInstance
               /\ lastCall'.user = cachedUserAddress]_vars

\* two callers ask for different users, and the second finds the first's instance
C34_Witness ==
    /\ mockFhevmInstance # Null
    /\ lastCall.op = "returned" /\ ~lastCall.created
    /\ lastCall.ret = mockFhevmInstance
    /\ \E c \in BagToSet(calls) : c.user # cachedUserAddress /\ c.pc = "MockFhevmInstance.create"


\* a step in which some call's await of initFhevm succeeded
InitFhevmSucceeds ==
    /\ lastCall' \in {[op |-> "resumed"],
                      [op |-> "returned", user |-> NullAddress, ret |-> Null,
                       created |-> FALSE]}
    /\ \E c \in Running("initFhevm") : CopiesIn(c, calls') < CopiesIn(c, calls)

\* a step in which some call starts the initialisation
InitialisationStarts ==
    \E c \in BagToSet(calls') :
        c.pc = "fetchWasm" /\ CopiesIn(c, calls') > CopiesIn(c, calls)
        /\ lastCall'.op # "clearFhevmCache"

\* C35: under concurrent initializeFhevm and getFhevmInstance calls initFhevm
\* succeeds at most once; isInitialized becomes true only by a successful
\* initFhevm, is never reset (not by clearFhevmCache either), and once it is true
\* no caller starts the initialisation again.
C35_InitialisedOnce ==
    /\ [][InitFhevmSucceeds => ~isInitialized]_vars
    /\ [][(isInitialized' /\ ~isInitialized) => InitFhevmSucceeds]_vars
    /\ [][isInitialized => isInitialized']_vars
    /\ [][isInitialized => ~InitialisationStarts]_vars


\* C37: encryptUint32 called with a value below 0 or above 4294967295, or with a
\* contract or user address that is empty or the zero address, throws, leaves
\* every cache as it was and starts no getFhevmInstance call.
C37_RejectsBeforeInstance ==
    [][(/\ lastCall'.op = "encryptUint32 called"
        /\ \/ lastCall'.value.neg /\ lastCall'.value # [neg |-> TRUE, hi |-> 0, lo |-> 0]
           \/ ~lastCall'.value.neg /\ lastCall'.value.hi >= Limb
           \/ lastCall'.contract \in {"", ZeroHexAddress}
           \/ lastCall'.user \in {"", ZeroHexAddress})
       => /\ lastCall'.threw # "none"
          /\ UNCHANGED <<caches, isInitialized, calls>>]_vars

\* a call with a zero contract address is rejected while the mock instance of an
\* earlier call is cached and another call is being served
C37_Witness ==
    /\ lastCall.op = "encryptUint32 called"
    /\ lastCall.contract = ZeroHexAddress
    /\ lastCall.threw = "Invalid contract address provided for encryption."
    /\ mockFhevmInstance # Null
    /\ calls # EmptyBag


\* ------------------------------------------------------------ Home: properties
\* C31: a loadMessages run started earlier never overwrites the result of a run
\* of the load effect started later, so that once all runs have finished the list
\* is the one built from the most recent inputs.
C31_LatestInputsWin ==
    /\ [][shownRun' >= shownRun]_vars
    /\ []((loads = {} /\ lastCall = [op |-> "loadMessages", run |-> shownRun, ok |-> TRUE])
           => shownRun = loadCount)

\* C32: a render of Home that gets a chain id different from the one the render
\* before it got clears the six caches of lib/fhevm and empties the message list,
\* once; the first render and a render that gets the same chain id again clear
\* nothing.
C32_ClearedOncePerChange ==
    [][lastCall'.op = "render"
       => IF seenChainId # NoChainId /\ chainId # seenChainId
          THEN /\ lastCall'.cleared
               /\ fhevmInstance' = Null /\ mockFhevmInstance' = Null
               /\ cachedUserAddress' = NullAddress /\ cachedMetadata' = Null
               /\ cachedInputVerifierEip712Domain' = Null
               /\ cachedKmsVerifierEip712Domain' = Null
               /\ pageMessages' = << >>
               /\ seenChainId' = chainId
          ELSE /\ ~lastCall'.cleared
               /\ UNCHANGED caches]_vars

\* a render after a switch from Sepolia to the local network has emptied the cache
\* that held the Sepolia instance, and the list a load had filled
C32_Witness ==
    /\ lastCall = [op |-> "render", cleared |-> TRUE]
    /\ isInitialized /\ fhevmInstance = Null
    /\ chainId = HardhatId /\ previousChainId = HardhatId
    /\ pageMessages = << >> /\ shownRun > 0


\* ------------------------------------------------- conversions: properties
\* the number a sequence of digit values stands for in a base, unwrapped
RECURSIVE Horner(_, _)
Horner(values, base) ==
    IF values = << >> THEN 0
    ELSE Horner(SubSeq(values, 1, Len(values) - 1), base) * base + values[Len(values)]

Uint32Of(n) == [neg |-> FALSE, hi |-> n \div Limb, lo |-> n % Limb]

\* C36: on chain 31337 a decryptUint32 call whose key generation, EIP-712
\* request, signing or userDecrypt fails returns parseInt(last 8 hex digits of
\* the handle) mod 1000000; on any other chain the failure is thrown to the caller.
C36_LocalFallbackOnly ==
    (/\ lastCall.op = "decryptUint32"
     /\ lastCall.failure \in {"generateKeypair", "createEIP712", "getSigner",
                              "signTypedData", "decrypt"})
    => IF lastCall.chain = HardhatId
       THEN \E k \in KnownHandles :
                /\ k[1] = lastCall.handle
                /\ lastCall.ret = [threw |-> FALSE, value |-> Uint32Of(k[2])]
       ELSE lastCall.ret = [threw |-> TRUE]

\* userDecrypt is rejected on the local network for the handle 0x1ffffffff
C36_Witness ==
    /\ lastCall.op = "decryptUint32"
    /\ lastCall.chain = HardhatId
    /\ lastCall.failure = "decrypt"
    /\ lastCall.handle = <<1, 15, 15, 15, 15, 15, 15, 15, 15>>
    /\ lastCall.ret = [threw |-> FALSE, value |-> Uint32Of(967295)]

\* C38: stringToUint32 returns an integer of 0..4294967295: the number a string
\* of decimal digits, blanks around it aside, stands for if that is at most
\* 4294967295, and otherwise the absolute value of the hash wrapped to 32 bits,
\* 2147483648 for the hash -2147483648.
C38_StringToUint32 ==
    lastCall.op = "stringToUint32"
    => LET str == lastCall.str
           trimmed == trim(str)
       IN  /\ ~lastCall.ret.neg
           /\ lastCall.ret.hi \in 0..(Limb - 1)
           /\ lastCall.ret.lo \in 0..(Limb - 1)
           /\ \A k \in KnownStrings :
                  k[1] = str
                  => lastCall.ret = [neg |-> FALSE, hi |-> k[2], lo |-> k[3]]
           /\ Len(str) <= MaxLen
              => IF trimmed # << >> /\ \A i \in 1..Len(trimmed) : trimmed[i] \in Digits
                 THEN lastCall.ret =
                          Uint32Of(Horner([i \in 1..Len(trimmed) |->
                                              CharCodes[trimmed[i]] - CharCodes["0"]], 10))
                 ELSE lastCall.ret =
                          Uint32Of(Horner([i \in 1..Len(str) |-> CharCodes[str[i]]], 31))

\* the string "GydZG_", whose hash wraps to -2147483648
C38_Witness ==
    lastCall = [op |-> "stringToUint32", str |-> <<"G", "y", "d", "Z", "G", "_">>,
                ret |-> [neg |-> FALSE, hi |-> 32768, lo |-> 0]]

====
